---- MODULE Spec2Model ----
(***************************************************************************)
(* Verification model of the 3D polish brush of margarets-nail-salon:      *)
(*   PolishBrush3D (controller), BrushInputHandler, BristlePaintApplicator *)
(*   (fallback painter), FluidSimulator and BristleSystem.                 *)
(*                                                                         *)
(* The specifications share the variables of the module:                   *)
(*   Spec        the controller with its input handler, fallback painter   *)
(*               and hand model; it sees the fluid solver through the set  *)
(*               of splat centres its paint field holds and the bristle    *)
(*               system through pressure, isContacting and the contacts.   *)
(*   SpecHand    the controller of Spec with a hand model whose nail       *)
(*               records may be missing and hits that may lack a UV.       *)
(*   SpecPaint   BristlePaintApplicator alone: paint() and resetStroke().  *)
(*   SpecFluid   FluidSimulator alone: splat / step / clear on a small     *)
(*               grid with fixed-point cell values.                        *)
(*   SpecBristle BristleSystem alone: update() on fixed-point joints.      *)
(*   SpecMatrices BristleSystem.updateInstanceMatrices() alone, on joints  *)
(*               with collapsed segments.                                  *)
(*   SpecBrush   the controller of Spec with the splat, step and clear     *)
(*               calls it makes carried out on the grids of SpecFluid.     *)
(*   SpecMiss    SpecBrush with a pointer that is never over the active    *)
(*               nail.                                                     *)
(*   SpecInput   BrushInputHandler alone: attach, detach, the pointer      *)
(*               events of a mouse and updatePressure().                   *)
(*   SpecUndo    PolishLayerState alone: saveUndoState, popUndo, clearAll. *)
(*   SpecDrying  PolishLayerState with the methods of its LayerState       *)
(*               objects, under a clock that stands for Date.now().        *)
(*                                                                         *)
(* Fixed point: UV, colour, alpha and pressure are thousandths, frame time *)
(* is milliseconds, canvas positions are tenths of a pixel, bristle joint  *)
(* coordinates are micrometres, the physics clock ticks 12000 times a      *)
(* second, Date.now() is milliseconds.                                     *)
(***************************************************************************)
EXTENDS Integers, Sequences, FiniteSets, TLC

VARIABLES
  \* ---- PolishBrush3D
  isActive,        \* this.isActive
  isPainting,      \* this.isPainting
  fluidSim,        \* this.fluidSim: "null" or "sim"
  useFluidSim,     \* this.useFluidSim
  renderer,        \* this.renderer present
  lastUV,          \* this.lastUV: NoUV or <<u, v>>
  \* ---- BrushInputHandler (this.inputHandler: NoHandler or a record)
  inputHandler,
  \* ---- HandModel
  activeNail,      \* handModel.activeNail
  canvas,          \* nail -> contents of nail.canvas
  \* ---- BristlePaintApplicator
  lastPaintedPos,  \* NoPos or <<x, y>>
  paintedCells,    \* set of <<cellX, cellY>>
  \* ---- FluidSimulator as the controller sees it
  simPaint,        \* paint the field holds since the last clear: <<nail, uv>>,
                   \* the splat centre and the nail that was active at the splat
  \* ---- BristleSystem as the controller sees it
  pressure,        \* bristleSystem.pressure
  isContacting,    \* bristleSystem.isContacting
  contactPoints,   \* bristleSystem.contactPoints
  \* ---- observation of a run
  calls,           \* calls the last operation made on its collaborators
  lastUVStale,     \* a release happened after lastUV was recorded
  lastPosStale,    \* a release happened after lastPaintedPos was recorded
  frames,          \* update(time) calls so far
  \* ---- FluidSimulator
  velocityFBO,     \* this.velocity: [read, write] of grids
  paintFBO,        \* this.paint: [read, write] of grids
  pressureFBO,     \* this.pressure: [read, write] of grids
  divergenceFBO,   \* this.divergence: one grid
  fluidCalls,      \* splat / step / clear calls made, with the paint before
  \* ---- BristleSystem
  jointPositions,      \* bristle -> <<joint 0, joint 1, joint 2, joint 3>>
  prevJointPositions,  \* the same, one Verlet step earlier
  physicsAccumulator,  \* this.physicsAccumulator
  instanceMatrix,      \* bristle -> segment -> matrix of the instanced mesh
  bristleCalls,        \* the update() calls made, each with what it did
  \* ---- the page and the scene
  visible,         \* bristleSystem.group.visible
  cursorClass,     \* #canvas-container carries the class polish-brush-active
  listeners,       \* event listener list of the canvas element
  \* ---- PolishLayerState
  layers,          \* this.layers: layer type -> LayerState
  activeLayer,     \* this.activeLayer
  undoStack,       \* this.undoStack
  dateNow,         \* Date.now()
  \* ---- observation of a run of PolishLayerState
  startDryingAt,   \* layer type -> Date.now() at the last startDrying() call
                   \* made on the coat the layer carries, NoTime if none
  saves,           \* saveUndoState() calls so far
  layerOp,         \* the method called last, its layer and what it returned
  \* ---- observation of a run
  lastOp           \* the operation called last and what the run noted of it

ctlVars == <<isActive, isPainting, fluidSim, useFluidSim, renderer, lastUV,
             inputHandler, activeNail, canvas, lastPaintedPos, paintedCells,
             simPaint, pressure, isContacting, contactPoints,
             calls, lastUVStale, lastPosStale, frames>>

fluidVars == <<velocityFBO, paintFBO, pressureFBO, divergenceFBO, fluidCalls>>

bristleVars == <<jointPositions, prevJointPositions, physicsAccumulator,
                 instanceMatrix, bristleCalls>>

\* the controller's variables BristleSystem does not own
hostVars == <<isActive, isPainting, fluidSim, useFluidSim, renderer, lastUV,
              inputHandler, activeNail, canvas, lastPaintedPos, paintedCells,
              simPaint, calls, lastUVStale, lastPosStale, frames>>

domVars == <<visible, cursorClass, listeners>>

layerVars == <<layers, activeLayer, undoStack, dateNow, startDryingAt, saves,
               layerOp>>

vars == <<ctlVars, fluidVars, bristleVars, domVars, layerVars, lastOp>>

----------------------------------------------------------------------------
\* PolishLayerState.js: LayerState and the constructor of PolishLayerState

BASE_COAT == "baseCoat"
COLOR_1 == "colorCoat1"
COLOR_2 == "colorCoat2"
TOP_COAT == "topCoat"

LAYER_ORDER == <<BASE_COAT, COLOR_1, COLOR_2, TOP_COAT>>

LayerTypes == {LAYER_ORDER[i] : i \in 1..Len(LAYER_ORDER)}

\* auto-dry time in milliseconds
DRY_TIME == 4000

\* this.maxUndoSteps
maxUndoSteps == 10

\* dryStartTime = null
NoTime == -1

\* color = null
NoColor == "null"

\* !this.dryStartTime: null and 0 are falsy
Falsy(t) == t = NoTime \/ t = 0

\* coverage.fill(0.9) and coverage.clear(): the opacity of every cell
FilledOpacity == 900

\* new LayerState(layerType)
LayerState(layerType) ==
  [type |-> layerType, applied |-> FALSE, color |-> NoColor, isDry |-> TRUE,
   dryStartTime |-> NoTime, coverage |-> 0]

startApplying(layer, color) ==
  [layer EXCEPT !.applied = TRUE, !.color = color, !.isDry = FALSE,
                !.dryStartTime = NoTime]

startDryingAlways(layer, t) == [layer EXCEPT !.dryStartTime = t]

startDrying(layer, t) ==
  IF ~layer.isDry /\ layer.applied THEN [layer EXCEPT !.dryStartTime = t]
  ELSE layer

checkDryAnyTimer(layer, t) ==
  IF layer.isDry THEN [layer |-> layer, result |-> TRUE]
  ELSE IF Falsy(layer.dryStartTime) THEN [layer |-> layer, result |-> FALSE]
  ELSE [layer |-> [layer EXCEPT !.isDry = TRUE], result |-> TRUE]

\* checkDry() at Date.now() = t: the layer it leaves and what it returns
checkDry(layer, t) ==
  IF layer.isDry THEN [layer |-> layer, result |-> TRUE]
  ELSE IF Falsy(layer.dryStartTime) THEN [layer |-> layer, result |-> FALSE]
  ELSE IF t - layer.dryStartTime >= DRY_TIME
    THEN [layer |-> [layer EXCEPT !.isDry = TRUE], result |-> TRUE]
  ELSE [layer |-> layer, result |-> FALSE]

instantDry(layer) == [layer EXCEPT !.isDry = TRUE, !.dryStartTime = NoTime]

resetLayer(layer) ==
  [layer EXCEPT !.applied = FALSE, !.color = NoColor, !.isDry = TRUE,
                !.dryStartTime = NoTime, !.coverage = 0]

\* the time the page is opened at
StartTime == 1000

\* popUndo() returned null
NoEntry == [activeLayer |-> "null", canvasData |-> 0, timestamp |-> 0]

LayerOp(fn, layer, value) == [fn |-> fn, layer |-> layer, value |-> value]

\* new PolishLayerState()
InitLayers ==
  /\ layers = [l \in LayerTypes |-> LayerState(l)]
  /\ activeLayer = COLOR_1
  /\ undoStack = <<>>
  /\ dateNow = StartTime
  /\ startDryingAt = [l \in LayerTypes |-> NoTime]
  /\ saves = 0
  /\ layerOp = LayerOp("constructor", "null", FALSE)

----------------------------------------------------------------------------
\* Values

NoUV == <<>>
NoPos == <<>>
NoHandler == [attached |-> FALSE]

Min(a, b) == IF a < b THEN a ELSE b
Max(a, b) == IF a > b THEN a ELSE b

\* Fingers whose nails the model carries (FINGERS of HandModel)
Nails == {"index", "middle"}

\* UV samples of the nail surface, in thousandths
UVa == <<500, 500>>
UVb == <<510, 500>>
UVc == <<600, 400>>

\* Where the pointer can be: over a nail at a UV, over a nail whose hit
\* carries no UV, or over nothing
ScreenPoints ==
  {[nail |-> "index", uv |-> UVa], [nail |-> "index", uv |-> UVc],
   [nail |-> "middle", uv |-> UVa], [nail |-> "none", uv |-> NoUV]}

\* event.pressure of a pointermove, thousandths
EventPressures == {0, 500, 1000}

\* Milliseconds between two update(time) calls
FrameTimes == {50, 200}

\* Contact lists handleCollision can return when the brush touches the nail
Contact(uv, p, i) == [uv |-> uv, pressure |-> p, bristleIndex |-> i]
ContactLists ==
  {<<>>, <<Contact(UVa, 1000, 0)>>, <<Contact(UVb, 150, 0)>>,
   <<Contact(UVa, 150, 0), Contact(UVc, 1000, 1)>>}

\* A nail canvas: the splat centres of the paint field last copied into it
\* and whether fallback strokes were drawn over that since
EmptyCanvas == [image |-> {}, strokes |-> FALSE]

----------------------------------------------------------------------------
\* BrushInputHandler

\* constructor: pointer up, no pressure, mouse at the centre of the view,
\* which is over no nail (a pointermove puts it anywhere else)
NewHandler ==
  [attached |-> TRUE, isPointerDown |-> FALSE, simulatedPressure |-> 0,
   mouse |-> [nail |-> "none", uv |-> NoUV], id |-> 1]

\* The five pointer events attach() listens for, and the bound method each
\* one is given
PointerTypes ==
  {"pointerdown", "pointermove", "pointerup", "pointerleave", "pointercancel"}

Callback(type) ==
  IF type = "pointerdown" THEN "onPointerDown"
  ELSE IF type = "pointermove" THEN "onPointerMove"
  ELSE "onPointerUp"

\* A registration on the element: the event type and the callback, a bound
\* method of the handler object owner
Listener(type, owner) == [type |-> type, fn |-> Callback(type), owner |-> owner]

\* domElement.addEventListener appends the registration without a check
addEventListenerAgain(L, l) == Append(L, l)

\* domElement.addEventListener: the event listener list of an element holds
\* a registration of a type and callback once
addEventListener(L, l) ==
  IF \E i \in 1..Len(L) : L[i] = l THEN L ELSE Append(L, l)

\* domElement.removeEventListener: removes the registration when it is there
removeEventListener(L, l) ==
  IF \E i \in 1..Len(L) : L[i] = l
    THEN LET k == CHOOSE i \in 1..Len(L) :
                    L[i] = l /\ \A j \in 1..(i - 1) : L[j] # l
         IN SubSeq(L, 1, k - 1) \o SubSeq(L, k + 1, Len(L))
    ELSE L

attach(L, owner) ==
  addEventListener(
    addEventListener(
      addEventListener(
        addEventListener(
          addEventListener(L, Listener("pointerdown", owner)),
          Listener("pointermove", owner)),
        Listener("pointerup", owner)),
      Listener("pointerleave", owner)),
    Listener("pointercancel", owner))

detach(L, owner) ==
  removeEventListener(
    removeEventListener(
      removeEventListener(
        removeEventListener(
          removeEventListener(L, Listener("pointerdown", owner)),
          Listener("pointermove", owner)),
        Listener("pointerup", owner)),
      Listener("pointerleave", owner)),
    Listener("pointercancel", owner))

\* the handler objects that still have a registration on the element
Owners(L) == {L[i].owner : i \in 1..Len(L)}

\* whether an event of the type reaches a callback of the handler object
Listening(L, type, owner) == \E i \in 1..Len(L) : L[i] = Listener(type, owner)

\* a name for a handler object just constructed: no registration carries it
FreshOwner(L) == CHOOSE n \in 1..(Len(L) + 1) : n \notin Owners(L)

onPointerDown(h, pt) ==
  [h EXCEPT !.isPointerDown = TRUE, !.mouse = pt, !.simulatedPressure = 350]

onPointerMove(h, pt, ep) ==
  [h EXCEPT !.mouse = pt,
            !.simulatedPressure = IF ep # 0 /\ ep > 0 /\ ep < 1000 THEN ep ELSE @]

onPointerUp(h) ==
  [h EXCEPT !.isPointerDown = FALSE, !.simulatedPressure = 0]

updatePressureNoClamp(h, dt) ==
  IF h.isPointerDown
    THEN [h EXCEPT !.simulatedPressure = @ + dt * 10]
    ELSE [h EXCEPT !.simulatedPressure = @ - dt * 8]

\* deltaTime * 10 per second of ramp, deltaTime * 8 of decay; dt in ms
updatePressure(h, dt) ==
  IF h.isPointerDown
    THEN [h EXCEPT !.simulatedPressure = Min(1000, @ + dt * 10)]
    ELSE [h EXCEPT !.simulatedPressure = Max(0, @ - dt * 8)]

\* a raycast that accepts a hit on the nail of any finger
getBrushTransformAnyNail(h, nailMesh) ==
  IF nailMesh # "none" /\ h.mouse.nail # "none"
    THEN [isValid |-> TRUE, uv |-> h.mouse.uv,
          pressure |-> IF h.isPointerDown THEN h.simulatedPressure ELSE 0]
    ELSE [isValid |-> FALSE, uv |-> NoUV, pressure |-> 0]

\* The raycast of the pointer against nailMesh hits when the pointer is over
\* that nail; nailMesh is "none" when the hand model has no active nail mesh
getBrushTransform(h, nailMesh) ==
  IF nailMesh # "none" /\ h.mouse.nail = nailMesh
    THEN [isValid |-> TRUE, uv |-> h.mouse.uv,
          pressure |-> IF h.isPointerDown THEN h.simulatedPressure ELSE 0]
    ELSE [isValid |-> FALSE, uv |-> NoUV, pressure |-> 0]

----------------------------------------------------------------------------
\* BristlePaintApplicator (PAINT_CONFIG and the constructor's grid)

CanvasDim == 1024
GridCells == 64
CellSize == 16
StrokeWidth == 70
MinDistance == 15

\* Sum of f over the elements of a sequence
RECURSIVE SumSeq(_, _, _)
SumSeq(s, F(_), i) == IF i > Len(s) THEN 0 ELSE F(s[i]) + SumSeq(s, F, i + 1)

ContactWeight(c) == IF c.pressure = 0 THEN 500 ELSE c.pressure

\* Pressure-weighted centroid of the contacts, in tenths of a canvas pixel
getPositionFromContacts(contacts) ==
  LET wx(c) == c.uv[1] * ContactWeight(c)
      wy(c) == c.uv[2] * ContactWeight(c)
      tw    == SumSeq(contacts, ContactWeight, 1)
      totalWeight == IF tw = 0 THEN 1 ELSE tw
      cu == SumSeq(contacts, wx, 1) \div totalWeight
      cv == SumSeq(contacts, wy, 1) \div totalWeight
  IN  <<(cu * CanvasDim) \div 100, (cv * CanvasDim) \div 100>>

\* Cells of the 64x64 coverage grid marked around (cx, cy), radius in pixels
markPaintedArea(pos, radius) ==
  LET radiusCells == ((radius + CellSize - 1) \div CellSize) + 1
      cellX == (pos[1] \div 10) \div CellSize
      cellY == (pos[2] \div 10) \div CellSize
  IN  {<<cellX + dx, cellY + dy>> :
          dx \in -radiusCells..radiusCells, dy \in -radiusCells..radiusCells}
      \cap ((0..(GridCells - 1)) \X (0..(GridCells - 1)))

\* Squared distance of two canvas positions (tenths of a pixel, squared)
Dist2(a, b) == (a[1] - b[1]) * (a[1] - b[1]) + (a[2] - b[2]) * (a[2] - b[2])

TooClose(pos, last) == Dist2(pos, last) < (MinDistance * 10) * (MinDistance * 10)

\* a paint() that stamps the first point of a stroke
paintStampsFirst(last, cells, contacts) ==
  LET pos == getPositionFromContacts(contacts)
  IN  IF contacts = <<>> THEN
        [ret |-> 0, last |-> last, cells |-> cells, seg |-> <<>>, pos |-> NoPos]
      ELSE IF last # NoPos /\ TooClose(pos, last) THEN
        [ret |-> 0, last |-> last, cells |-> cells, seg |-> <<>>, pos |-> pos]
      ELSE
        [ret |-> 1, last |-> pos,
         cells |-> cells \cup markPaintedArea(pos, StrokeWidth \div 2),
         seg |-> <<pos, pos>>, pos |-> pos]

paintMovesAnchor(last, cells, contacts) ==
  LET pos == getPositionFromContacts(contacts)
  IN  IF contacts = <<>> THEN
        [ret |-> 0, last |-> last, cells |-> cells, seg |-> <<>>, pos |-> NoPos]
      ELSE IF last = NoPos \/ TooClose(pos, last) THEN
        [ret |-> 0, last |-> pos, cells |-> cells, seg |-> <<>>, pos |-> pos]
      ELSE
        [ret |-> 1, last |-> pos,
         cells |-> cells \cup markPaintedArea(last, StrokeWidth \div 2)
                         \cup markPaintedArea(pos, StrokeWidth \div 2),
         seg |-> <<last, pos>>, pos |-> pos]

\* paint(ctx, contacts, color, opacity) on an applicator whose state is
\* (last, cells): the value returned, the new state and the segment drawn
paint(last, cells, contacts) ==
  LET pos == getPositionFromContacts(contacts)
  IN  IF contacts = <<>> THEN
        [ret |-> 0, last |-> last, cells |-> cells, seg |-> <<>>, pos |-> NoPos]
      ELSE IF last = NoPos THEN
        [ret |-> 0, last |-> pos, cells |-> cells, seg |-> <<>>, pos |-> pos]
      ELSE IF TooClose(pos, last) THEN
        [ret |-> 0, last |-> last, cells |-> cells, seg |-> <<>>, pos |-> pos]
      ELSE
        [ret |-> 1, last |-> pos,
         cells |-> cells \cup markPaintedArea(last, StrokeWidth \div 2)
                         \cup markPaintedArea(pos, StrokeWidth \div 2),
         seg |-> <<last, pos>>, pos |-> pos]

\* getCoverage() in ten-thousandths of the grid
getCoverage == (Cardinality(paintedCells) * 10000) \div (GridCells * GridCells)

----------------------------------------------------------------------------
\* Calls an operation makes on its collaborators, in order.
\*   splat: uv the point, vel the velocity, stale whether the lastUV the
\*          velocity was taken from was recorded before a release
\*   paint: uv the centroid, vel the last painted point before the call,
\*          cells the coverage grid before the call, ret the value returned,
\*          draws the segments drawn, stale whether a drawn segment starts at
\*          a point recorded before a release
Call(fn, uv, vel, stale, ret, draws, cells) ==
  [fn |-> fn, uv |-> uv, vel |-> vel, stale |-> stale, ret |-> ret,
   draws |-> draws, cells |-> cells]
Plain(fn) == Call(fn, <<>>, <<>>, FALSE, 0, 0, {})

CallsOf(fn) == {i \in 1..Len(calls) : calls[i].fn = fn}

----------------------------------------------------------------------------
\* HandModel

\* a getNailMesh() that hands out the mesh of the active finger unasked
getNailMeshUnchecked == activeNail

\* the nails the hand model holds a record for (mesh, canvas, context and
\* texture are created together): none before load() found the nail meshes
LoadedNails == DOMAIN canvas

\* getNailMesh(): the mesh of the active nail, "none" when the hand model
\* has no record for it
getNailMesh == IF activeNail \in LoadedNails THEN activeNail ELSE "none"

\* load(): the nail records of the current hand are set up
load ==
  /\ LoadedNails = {}
  /\ canvas' = [n \in Nails |-> EmptyCanvas]
  /\ calls' = <<>>
  /\ UNCHANGED <<isActive, isPainting, fluidSim, useFluidSim, renderer, lastUV,
                 inputHandler, activeNail, lastPaintedPos, paintedCells, simPaint,
                 pressure, isContacting, contactPoints, lastUVStale,
                 lastPosStale, frames>>

\* setActiveNail(finger): the user selects another nail
setActiveNail(finger) ==
  /\ finger # activeNail
  /\ finger \in LoadedNails
  /\ activeNail' = finger
  /\ calls' = <<>>
  /\ UNCHANGED <<isActive, isPainting, fluidSim, useFluidSim, renderer, lastUV,
                 inputHandler, canvas, lastPaintedPos, paintedCells, simPaint,
                 pressure, isContacting, contactPoints, lastUVStale,
                 lastPosStale, frames>>

----------------------------------------------------------------------------
\* PolishBrush3D

\* setRenderer(renderer): creates the fluid solver when there is none
setRenderer ==
  /\ ~renderer
  /\ renderer' = TRUE
  /\ fluidSim' = "sim"
  /\ calls' = <<>>
  /\ UNCHANGED <<isActive, isPainting, useFluidSim, lastUV, inputHandler,
                 activeNail, canvas, lastPaintedPos, paintedCells, simPaint,
                 pressure, isContacting, contactPoints, lastUVStale,
                 lastPosStale, frames>>

\* What the page holds when activate() queries it: nothing, the element
\* #canvas-container alone, or the container with the renderer's canvas
Pages == {"none", "container", "canvas"}

\* activate(): returns at once when already active; page is what
\* document.querySelector finds
activate(page) ==
  IF isActive THEN
    /\ calls' = <<>>
    /\ UNCHANGED <<isActive, isPainting, fluidSim, useFluidSim, renderer, lastUV,
                   inputHandler, activeNail, canvas, lastPaintedPos,
                   paintedCells, simPaint, pressure, isContacting,
                   contactPoints, lastUVStale, lastPosStale, frames, domVars>>
  ELSE
    /\ isActive' = TRUE
    /\ fluidSim' = IF renderer /\ fluidSim = "null" THEN "sim" ELSE fluidSim
    /\ inputHandler' = IF page = "canvas"
                         THEN [NewHandler EXCEPT !.id = FreshOwner(listeners)]
                         ELSE inputHandler
    /\ listeners' = IF page = "canvas"
                      THEN attach(listeners, FreshOwner(listeners))
                      ELSE listeners
    /\ cursorClass' = (cursorClass \/ page # "none")
    /\ visible' = TRUE
    /\ calls' = <<>>
    /\ UNCHANGED <<isPainting, useFluidSim, renderer, lastUV, activeNail, canvas,
                   lastPaintedPos, paintedCells, simPaint, pressure,
                   isContacting, contactPoints, lastUVStale, lastPosStale,
                   frames>>

\* deactivate() without the detach() of the input handler
deactivateKeepsListeners ==
  IF ~isActive THEN
    /\ calls' = <<>>
    /\ UNCHANGED <<isActive, isPainting, fluidSim, useFluidSim, renderer, lastUV,
                   inputHandler, activeNail, canvas, lastPaintedPos,
                   paintedCells, simPaint, pressure, isContacting,
                   contactPoints, lastUVStale, lastPosStale, frames, domVars>>
  ELSE
    /\ isActive' = FALSE
    /\ isPainting' = FALSE
    /\ inputHandler' = NoHandler
    /\ cursorClass' = FALSE
    /\ visible' = FALSE
    /\ calls' = <<>>
    /\ UNCHANGED <<fluidSim, useFluidSim, renderer, lastUV, activeNail, canvas,
                   lastPaintedPos, paintedCells, simPaint, pressure,
                   isContacting, contactPoints, lastUVStale, lastPosStale,
                   frames, listeners>>

\* deactivate(): returns at once when not active; the class is taken off the
\* container the page has (a page without one has no element carrying it)
deactivate ==
  IF ~isActive THEN
    /\ calls' = <<>>
    /\ UNCHANGED <<isActive, isPainting, fluidSim, useFluidSim, renderer, lastUV,
                   inputHandler, activeNail, canvas, lastPaintedPos,
                   paintedCells, simPaint, pressure, isContacting,
                   contactPoints, lastUVStale, lastPosStale, frames, domVars>>
  ELSE
    /\ isActive' = FALSE
    /\ isPainting' = FALSE
    /\ inputHandler' = NoHandler
    /\ listeners' = IF inputHandler.attached
                      THEN detach(listeners, inputHandler.id) ELSE listeners
    /\ cursorClass' = FALSE
    /\ visible' = FALSE
    /\ calls' = <<>>
    /\ UNCHANGED <<fluidSim, useFluidSim, renderer, lastUV, activeNail, canvas,
                   lastPaintedPos, paintedCells, simPaint, pressure,
                   isContacting, contactPoints, lastUVStale, lastPosStale,
                   frames>>

\* setUseFluidSim(enabled)
setUseFluidSim(enabled) ==
  /\ enabled # useFluidSim
  /\ useFluidSim' = enabled
  /\ calls' = <<>>
  /\ UNCHANGED <<isActive, isPainting, fluidSim, renderer, lastUV, inputHandler,
                 activeNail, canvas, lastPaintedPos, paintedCells, simPaint,
                 pressure, isContacting, contactPoints, lastUVStale,
                 lastPosStale, frames>>

\* clearNail(): returns at once when the active nail has no canvas;
\* resetStroke() resets the last painted point
\* and leaves paintedCells alone
clearNail ==
  /\ activeNail \in LoadedNails
  /\ canvas' = [canvas EXCEPT ![activeNail] = EmptyCanvas]
  /\ simPaint' = IF fluidSim = "sim" THEN {} ELSE simPaint
  /\ lastPaintedPos' = NoPos
  /\ lastUV' = NoUV
  /\ lastUVStale' = FALSE
  /\ lastPosStale' = FALSE
  /\ calls' = (IF fluidSim = "sim" THEN <<Plain("clear")>> ELSE <<>>)
                \o <<Plain("resetStroke"), Plain("onCoverageChange")>>
  /\ UNCHANGED <<isActive, isPainting, fluidSim, useFluidSim, renderer,
                 inputHandler, activeNail, paintedCells, pressure, isContacting,
                 contactPoints, frames>>

----------------------------------------------------------------------------
\* Pointer events reach the handler while it is attached to the canvas

pointerdown(pt) ==
  /\ inputHandler.attached
  /\ Listening(listeners, "pointerdown", inputHandler.id)
  /\ inputHandler' = onPointerDown(inputHandler, pt)
  /\ calls' = <<>>
  /\ UNCHANGED <<isActive, isPainting, fluidSim, useFluidSim, renderer, lastUV,
                 activeNail, canvas, lastPaintedPos, paintedCells, simPaint,
                 pressure, isContacting, contactPoints, lastUVStale,
                 lastPosStale, frames>>

pointermove(pt, ep) ==
  /\ inputHandler.attached
  /\ Listening(listeners, "pointermove", inputHandler.id)
  /\ inputHandler' = onPointerMove(inputHandler, pt, ep)
  /\ calls' = <<>>
  /\ UNCHANGED <<isActive, isPainting, fluidSim, useFluidSim, renderer, lastUV,
                 activeNail, canvas, lastPaintedPos, paintedCells, simPaint,
                 pressure, isContacting, contactPoints, lastUVStale,
                 lastPosStale, frames>>

\* pointerup, pointerleave and pointercancel all run onPointerUp; a release
\* makes the points recorded so far points of an earlier press
pointerup ==
  /\ inputHandler.attached
  /\ \E type \in {"pointerup", "pointerleave", "pointercancel"} :
       Listening(listeners, type, inputHandler.id)
  /\ inputHandler' = onPointerUp(inputHandler)
  /\ lastUVStale' = (lastUVStale \/ (inputHandler.isPointerDown /\ lastUV # NoUV))
  /\ lastPosStale' = (lastPosStale
                        \/ (inputHandler.isPointerDown /\ lastPaintedPos # NoPos))
  /\ calls' = <<>>
  /\ UNCHANGED <<isActive, isPainting, fluidSim, useFluidSim, renderer, lastUV,
                 activeNail, canvas, lastPaintedPos, paintedCells, simPaint,
                 pressure, isContacting, contactPoints, frames>>

----------------------------------------------------------------------------
\* update(time)

\* Frames a run of the controller takes
MaxFrames == 2

\* Cap of the frame's deltaTime, ms
MaxFrameDt == 50

\* What bristleSystem.update returns to the controller: handleCollision
\* returns no contact without a mesh or while not contacting, else whatever
\* the bristle raycasts give (cl)
bristleContacts(nailMesh, contacting, cl) ==
  IF nailMesh = "none" \/ ~contacting THEN <<>> ELSE cl

\* The stroke bookkeeping of update(): whether this frame resets lastUV and
\* the fallback painter's last point (a start, a stop, or leaving the nail)
strokeReset(hasT, valid, now, was) ==
  \/ valid /\ now /\ ~was
  \/ valid /\ ~now /\ was
  \/ hasT /\ ~valid /\ was

\* the solver is used whenever there is one
usesFluidWhenPresent(sim, enabled) == sim = "sim"

\* this.fluidSim && this.useFluidSim
usesFluid(sim, enabled) == sim = "sim" /\ enabled

\* a fallback branch that does not depend on the solver branch
fallbackAlso(fluid, painting, contacts) == painting /\ contacts # <<>>

\* the else-if of update(): the fallback branch is entered when the solver
\* branch was not, the brush is painting and the bristles report contacts
fallbackTaken(fluid, painting, contacts) == ~fluid /\ painting /\ contacts # <<>>

\* the calls of a frame with the solver stepped ahead of the splat
frameCallsStepFirst(events, splats, stepping, paints) ==
  events \o stepping \o splats \o <<Plain("bristleSystem.update")>> \o paints

\* The calls a frame makes on its collaborators, in the order of the
\* statements of update(): the stroke events, the splat, the bristle update,
\* the solver step with the copy to the canvas, the fallback paint
frameCalls(events, splats, stepping, paints) ==
  events \o splats \o <<Plain("bristleSystem.update")>> \o stepping \o paints

\* update(time) while the brush is active
updateActive(elapsed, cl) ==
  LET dt        == Min(elapsed, MaxFrameDt)
      h         == IF inputHandler.attached
                     THEN updatePressure(inputHandler, dt) ELSE inputHandler
      nailMesh  == getNailMesh
      hasT      == h.attached
      t         == IF hasT THEN getBrushTransform(h, nailMesh)
                           ELSE [isValid |-> FALSE, uv |-> NoUV, pressure |-> 0]
      valid     == hasT /\ t.isValid
      was       == isPainting
      now       == IF ~hasT THEN isPainting
                   ELSE IF valid THEN h.isPointerDown ELSE FALSE
      reset     == strokeReset(hasT, valid, now, was)
      lastUV1   == IF reset THEN NoUV ELSE lastUV
      uvStale1  == IF reset THEN FALSE ELSE lastUVStale
      lastPos1  == IF reset THEN NoPos ELSE lastPaintedPos
      posStale1 == IF reset THEN FALSE ELSE lastPosStale
      fluid     == usesFluid(fluidSim, useFluidSim)
      doSplat   == valid /\ now /\ fluid /\ t.uv # NoUV
      vel       == IF lastUV1 # NoUV
                     THEN <<(t.uv[1] - lastUV1[1]) * 10, (t.uv[2] - lastUV1[2]) * 10>>
                     ELSE <<0, 0>>
      press1    == IF ~hasT THEN pressure ELSE IF valid THEN t.pressure ELSE 0
      contact1  == IF ~hasT THEN isContacting ELSE valid /\ t.pressure > 0
      contacts  == bristleContacts(nailMesh, contact1, cl)
      simPaint1 == IF doSplat THEN simPaint \cup {<<activeNail, t.uv>>} ELSE simPaint
      hasCanvas == activeNail \in LoadedNails
      doPaint   == fallbackTaken(fluid, now, contacts) /\ hasCanvas
      r         == paint(lastPos1, paintedCells, contacts)
      events    == IF ~reset THEN <<>>
                   ELSE <<Plain("resetStroke"),
                          Plain(IF valid /\ now THEN "onPaintStart" ELSE "onPaintEnd")>>
  IN
  /\ frames < MaxFrames
  /\ cl = contacts
  /\ contactPoints' = contacts
  /\ inputHandler' = h
  /\ pressure' = press1
  /\ isContacting' = contact1
  /\ isPainting' = now
  /\ lastUV' = IF doSplat THEN t.uv ELSE lastUV1
  /\ lastUVStale' = IF doSplat THEN FALSE ELSE uvStale1
  /\ simPaint' = simPaint1
  /\ lastPaintedPos' = IF doPaint THEN r.last ELSE lastPos1
  /\ lastPosStale' = IF doPaint /\ r.last # lastPos1 THEN FALSE ELSE posStale1
  /\ paintedCells' = IF doPaint THEN r.cells ELSE paintedCells
  /\ canvas' =
       IF fluid /\ hasCanvas
         THEN [canvas EXCEPT ![activeNail] = [image |-> simPaint1, strokes |-> FALSE]]
       ELSE IF doPaint /\ r.ret = 1
         THEN [canvas EXCEPT ![activeNail].strokes = TRUE]
         ELSE canvas
  /\ calls' = frameCalls(
       events,
       IF doSplat
         THEN <<Call("splat", t.uv, vel, uvStale1 /\ lastUV1 # NoUV, 0, 0, {})>>
         ELSE <<>>,
       IF fluid
         THEN <<Plain("step")>> \o (IF hasCanvas THEN <<Plain("copyToCanvas")>> ELSE <<>>)
         ELSE <<>>,
       IF doPaint
         THEN <<Call("paint", r.pos, lastPos1, posStale1 /\ lastPos1 # NoPos,
                     r.ret, IF r.seg = <<>> THEN 0 ELSE 1, paintedCells)>>
         ELSE <<>>)
  /\ frames' = frames + 1
  /\ UNCHANGED <<isActive, fluidSim, useFluidSim, renderer, activeNail>>

\* an update(time) that runs the frame whether or not the brush is active
updateWhileInactive(elapsed, cl) == updateActive(elapsed, cl)

\* update(time): returns at once while the brush is not active
update(elapsed, cl) ==
  IF isActive THEN updateActive(elapsed, cl)
  ELSE
    /\ cl = <<>>
    /\ calls' = <<>>
    /\ UNCHANGED <<isActive, isPainting, fluidSim, useFluidSim, renderer, lastUV,
                   inputHandler, activeNail, canvas, lastPaintedPos,
                   paintedCells, simPaint, pressure, isContacting,
                   contactPoints, lastUVStale, lastPosStale, frames>>

----------------------------------------------------------------------------
\* The controller's specification

InitCtlWith(cl, nails) ==
  /\ isActive = FALSE
  /\ isPainting = FALSE
  /\ fluidSim = "null"
  /\ useFluidSim = TRUE
  /\ renderer \in BOOLEAN
  /\ lastUV = NoUV
  /\ inputHandler = NoHandler
  /\ activeNail = "index"
  /\ canvas = [n \in nails |-> EmptyCanvas]
  /\ lastPaintedPos = NoPos
  /\ paintedCells = {}
  /\ simPaint = {}
  /\ pressure = 0
  /\ isContacting = FALSE
  /\ contactPoints = cl
  /\ calls = <<>>
  /\ lastUVStale = FALSE
  /\ lastPosStale = FALSE
  /\ frames = 0
  /\ visible = FALSE
  /\ cursorClass = FALSE
  /\ listeners = <<>>
  /\ lastOp = <<>>

InitCtl == InitCtlWith(<<>>, Nails)

----------------------------------------------------------------------------
\* FluidSimulator (BristlePaintApplicator.js from line 196 on): the solver of
\* size GridSize, every pass computed texel by texel as its shader does

GridSize == 2
MaxOps == 3

One == 1000

Cells == (0..(GridSize - 1)) \X (0..(GridSize - 1))

\* uniforms of this.config
velocityDissipation == 850
paintDissipation == 1000
pressureIterations == 10
splatRadius == 6000          \* 0.006, in millionths (UV thousandths squared)
splatStrength == 1000
MaxStepDt == 33

\* renderer.clear() on a target: the renderer of NailScene has alpha: true,
\* so the clear value is transparent black
ClearGrid == [c \in Cells |-> <<0, 0, 0, 0>>]

\* createDoubleFBO(): two render targets, "A" and "B", of which read and
\* write name one each; read and write hold the texels of their targets
createDoubleFBO ==
  [read |-> ClearGrid, write |-> ClearGrid, readTarget |-> "A", writeTarget |-> "B"]

\* a swap() that leaves read and write where they are
swapNothing(fbo) == fbo

swap(fbo) ==
  [read |-> fbo.write, write |-> fbo.read,
   readTarget |-> fbo.writeTarget, writeTarget |-> fbo.readTarget]

\* the render target a pair reads from (its texture) and the one it renders to
ReadOf(pair, fbo) == <<pair, fbo.readTarget>>
WriteOf(pair, fbo) == <<pair, fbo.writeTarget>>
DivergenceTarget == <<"divergence", "A">>

\* vUv of the fragment of a texel
CellUV(c) ==
  <<((2 * c[1] + 1) * One) \div (2 * GridSize),
    ((2 * c[2] + 1) * One) \div (2 * GridSize)>>

Clamp(i) == Max(0, Min(GridSize - 1, i))

Scale(x, m) == (x * m) \div One

Lerp(a, b, f) ==
  <<a[1] + Scale(b[1] - a[1], f), a[2] + Scale(b[2] - a[2], f),
    a[3] + Scale(b[3] - a[3], f), a[4] + Scale(b[4] - a[4], f)>>

\* texture2D that takes uv = 0 for the centre of the first texel
texture2DCorner(tex, uv) ==
  LET X  == uv[1] * GridSize
      Y  == uv[2] * GridSize
      x0 == X \div One
      y0 == Y \div One
      fx == X % One
      fy == Y % One
      bottom == Lerp(tex[<<Clamp(x0), Clamp(y0)>>],
                     tex[<<Clamp(x0 + 1), Clamp(y0)>>], fx)
      top    == Lerp(tex[<<Clamp(x0), Clamp(y0 + 1)>>],
                     tex[<<Clamp(x0 + 1), Clamp(y0 + 1)>>], fx)
  IN Lerp(bottom, top, fy)

\* texture2D with LinearFilter and ClampToEdgeWrapping
texture2D(tex, uv) ==
  LET X  == uv[1] * GridSize - One \div 2
      Y  == uv[2] * GridSize - One \div 2
      x0 == X \div One
      y0 == Y \div One
      fx == X % One
      fy == Y % One
      bottom == Lerp(tex[<<Clamp(x0), Clamp(y0)>>],
                     tex[<<Clamp(x0 + 1), Clamp(y0)>>], fx)
      top    == Lerp(tex[<<Clamp(x0), Clamp(y0 + 1)>>],
                     tex[<<Clamp(x0 + 1), Clamp(y0 + 1)>>], fx)
  IN Lerp(bottom, top, fy)

\* texture2D at vUv displaced by whole texels: the neighbouring texel
texel(tex, c, di, dj) == tex[<<Clamp(c[1] + di), Clamp(c[2] + dj)>>]

\* exp(-k/8) in thousandths for k = 0..64, each entry the one before it
\* multiplied by exp(-1/8) = 0.882 and truncated; past the table the value is 0
ExpNeg8Table ==
  <<
    1000, 882, 777, 685, 604, 532, 469, 413, 364, 321,
    283, 249, 219, 193, 170, 149, 131, 115, 101, 89,
    78, 68, 59, 52, 45, 39, 34, 29, 25, 22,
    19, 16, 14, 12, 10, 8, 7, 6, 5, 4,
    3, 2, 1, 0, 0, 0, 0, 0, 0, 0,
    0, 0, 0, 0, 0, 0, 0, 0, 0, 0,
    0, 0, 0, 0, 0
  >>

ExpNeg8(k) == IF k < Len(ExpNeg8Table) THEN ExpNeg8Table[k + 1] ELSE 0

\* uStrength * exp(-d * d / uRadius)
splatWeight(uv, point) ==
  LET dx == uv[1] - point[1]
      dy == uv[2] - point[2]
      d2 == dx * dx + dy * dy
      k  == (8 * d2 + splatRadius \div 2) \div splatRadius
  IN Scale(splatStrength, ExpNeg8(k))

\* mix(base.rgb, uColor, min(1.0, splat)), one channel
splatColorAdd(base, c, w) == base + Scale(c, Min(One, w))

splatColor(base, c, w) == base + Scale(c - base, Min(One, w))

\* max(base.a, min(1.0, splat))
splatAlphaSum(baseA, w) == baseA + Min(One, w)

splatAlpha(baseA, w) == Max(baseA, Min(One, w))

velocitySplatShader(src, point, vel) ==
  [c \in Cells |->
    LET base == src[c]
        w    == splatWeight(CellUV(c), point)
    IN <<base[1] + Scale(w, vel[1]), base[2] + Scale(w, vel[2]),
         base[3], base[4]>>]

paintSplatShader(src, point, color) ==
  [c \in Cells |->
    LET base == src[c]
        w    == splatWeight(CellUV(c), point)
    IN <<splatColor(base[1], color[1], w), splatColor(base[2], color[2], w),
         splatColor(base[3], color[3], w), splatAlpha(base[4], w)>>]

advectShader(velTex, srcTex, dt, dissipation) ==
  [c \in Cells |->
    LET vel == velTex[c]
        uv  == CellUV(c)
        pos == <<uv[1] - (vel[1] * dt) \div 2000,
                 uv[2] - (vel[2] * dt) \div 2000>>
        s   == texture2D(srcTex, pos)
    IN <<Scale(dissipation, s[1]), Scale(dissipation, s[2]),
         Scale(dissipation, s[3]), Scale(dissipation, s[4])>>]

divergenceShader(velTex) ==
  [c \in Cells |->
    LET L == texel(velTex, c, -1, 0)[1]
        R == texel(velTex, c, 1, 0)[1]
        T == texel(velTex, c, 0, 1)[2]
        B == texel(velTex, c, 0, -1)[2]
    IN <<(R - L + T - B) \div 2, 0, 0, One>>]

pressureShader(pTex, divTex) ==
  [c \in Cells |->
    LET L == texel(pTex, c, -1, 0)[1]
        R == texel(pTex, c, 1, 0)[1]
        T == texel(pTex, c, 0, 1)[1]
        B == texel(pTex, c, 0, -1)[1]
    IN <<(L + R + T + B - divTex[c][1]) \div 4, 0, 0, One>>]

gradientSubtractShader(pTex, velTex) ==
  [c \in Cells |->
    LET L == texel(pTex, c, -1, 0)[1]
        R == texel(pTex, c, 1, 0)[1]
        T == texel(pTex, c, 0, 1)[1]
        B == texel(pTex, c, 0, -1)[1]
    IN <<velTex[c][1] - (R - L) \div 2, velTex[c][2] - (T - B) \div 2,
         0, One>>]

\* renderPass(material, target): every texel of the target is written once
renderPass(result) == result @@ result

\* renderPass(material, fbo.write) followed by fbo.swap()
renderAndSwap(fbo, result) == swap([fbo EXCEPT !.write = renderPass(result)])

\* One render pass as the run observes it: the material, the textures its
\* uniforms pointed at when it was rendered (<<>> for a uniform the material
\* lacks), the texels it wrote, the render target it wrote them to and the
\* render targets whose textures its uniforms held
Pass(name, uVelocity, uSource, uPressure, uDivergence, out, target, sampled) ==
  [name |-> name, uVelocity |-> uVelocity, uSource |-> uSource,
   uPressure |-> uPressure, uDivergence |-> uDivergence, out |-> out,
   target |-> target, sampled |-> sampled]

\* the Jacobi loop of step(): pressureIterations passes, a swap after each;
\* the target pair after the loop and the passes rendered
RECURSIVE pressureSolve(_, _, _)
pressureSolve(fbo, divTex, n) ==
  IF n = 0 THEN [fbo |-> fbo, passes |-> <<>>]
  ELSE LET out  == renderPass(pressureShader(fbo.read, divTex))
           rest == pressureSolve(renderAndSwap(fbo, out), divTex, n - 1)
       IN [fbo |-> rest.fbo,
           passes |-> <<Pass("pressure", <<>>, <<>>, fbo.read, divTex, out,
                             WriteOf("pressure", fbo),
                             {ReadOf("pressure", fbo), DivergenceTarget})>>
                        \o rest.passes]

\* the render targets of the solver
Fields ==
  [velocity |-> velocityFBO, paint |-> paintFBO, pressure |-> pressureFBO,
   divergence |-> divergenceFBO]

\* splat(u, v, velocityX, velocityY, color) on the targets F
splatFields(F, point, vel, color) ==
  [F EXCEPT
     !.velocity = renderAndSwap(F.velocity,
                    velocitySplatShader(F.velocity.read, point, vel)),
     !.paint = renderAndSwap(F.paint, paintSplatShader(F.paint.read, point, color))]

\* the two passes of splat(), each with the textures its uniforms were given
splatPasses(F, point, vel, color) ==
  <<Pass("velocitySplat", <<>>, F.velocity.read, <<>>, <<>>,
         renderPass(velocitySplatShader(F.velocity.read, point, vel)),
         WriteOf("velocity", F.velocity), {ReadOf("velocity", F.velocity)}),
    Pass("paintSplat", <<>>, F.paint.read, <<>>, <<>>,
         renderPass(paintSplatShader(F.paint.read, point, color)),
         WriteOf("paint", F.paint), {ReadOf("paint", F.paint)})>>

\* step(dt) with the paint advected along the velocity of the frame before
stepFieldsStaleVelocity(F, elapsed) ==
  LET dt    == Min(elapsed, MaxStepDt)
      adv   == renderPass(advectShader(F.velocity.read, F.velocity.read, dt,
                                       velocityDissipation))
      vel1  == renderAndSwap(F.velocity, adv)
      padv  == renderPass(advectShader(F.velocity.read, F.paint.read, dt,
                                       paintDissipation))
      div1  == renderPass(divergenceShader(vel1.read))
      p0    == [F.pressure EXCEPT !.read = ClearGrid]
      solve == pressureSolve(p0, div1, pressureIterations)
      grad  == renderPass(gradientSubtractShader(solve.fbo.read, vel1.read))
  IN [F |-> [velocity |-> renderAndSwap(vel1, grad),
             paint |-> renderAndSwap(F.paint, padv),
             pressure |-> solve.fbo,
             divergence |-> div1],
      passes |->
        <<Pass("advect", F.velocity.read, F.velocity.read, <<>>, <<>>, adv,
               WriteOf("velocity", F.velocity), {ReadOf("velocity", F.velocity)}),
          Pass("advect", F.velocity.read, F.paint.read, <<>>, <<>>, padv,
               WriteOf("paint", F.paint),
               {ReadOf("velocity", F.velocity), ReadOf("paint", F.paint)}),
          Pass("divergence", vel1.read, <<>>, <<>>, <<>>, div1,
               DivergenceTarget, {ReadOf("velocity", vel1)})>>
        \o solve.passes
        \o <<Pass("gradientSubtract", vel1.read, <<>>, solve.fbo.read, <<>>, grad,
                  WriteOf("velocity", vel1),
                  {ReadOf("pressure", solve.fbo), ReadOf("velocity", vel1)})>>]

\* step(dt) on the targets F: the targets after it and the passes rendered,
\* each with the textures its uniforms were given
stepFields(F, elapsed) ==
  LET dt    == Min(elapsed, MaxStepDt)
      adv   == renderPass(advectShader(F.velocity.read, F.velocity.read, dt,
                                       velocityDissipation))
      vel1  == renderAndSwap(F.velocity, adv)
      padv  == renderPass(advectShader(vel1.read, F.paint.read, dt,
                                       paintDissipation))
      div1  == renderPass(divergenceShader(vel1.read))
      p0    == [F.pressure EXCEPT !.read = ClearGrid]
      solve == pressureSolve(p0, div1, pressureIterations)
      grad  == renderPass(gradientSubtractShader(solve.fbo.read, vel1.read))
  IN [F |-> [velocity |-> renderAndSwap(vel1, grad),
             paint |-> renderAndSwap(F.paint, padv),
             pressure |-> solve.fbo,
             divergence |-> div1],
      passes |->
        <<Pass("advect", F.velocity.read, F.velocity.read, <<>>, <<>>, adv,
               WriteOf("velocity", F.velocity), {ReadOf("velocity", F.velocity)}),
          Pass("advect", vel1.read, F.paint.read, <<>>, <<>>, padv,
               WriteOf("paint", F.paint),
               {ReadOf("velocity", vel1), ReadOf("paint", F.paint)}),
          Pass("divergence", vel1.read, <<>>, <<>>, <<>>, div1,
               DivergenceTarget, {ReadOf("velocity", vel1)})>>
        \o solve.passes
        \o <<Pass("gradientSubtract", vel1.read, <<>>, solve.fbo.read, <<>>, grad,
                  WriteOf("velocity", vel1),
                  {ReadOf("pressure", solve.fbo), ReadOf("velocity", vel1)})>>]

\* renderer.clear() on both targets of a pair
clearPair(fbo) == [fbo EXCEPT !.read = ClearGrid, !.write = ClearGrid]

\* clear() on the targets F: the divergence target is not cleared
clearFields(F) ==
  [F EXCEPT !.velocity = clearPair(F.velocity), !.paint = clearPair(F.paint),
            !.pressure = clearPair(F.pressure)]

\* the targets become F
setFields(F) ==
  /\ velocityFBO' = F.velocity
  /\ paintFBO' = F.paint
  /\ pressureFBO' = F.pressure
  /\ divergenceFBO' = F.divergence

\* inputs of the solver: splat points at and beside the centre of a texel,
\* brush velocities as PolishBrush3D derives them, two polish colours
SplatPoints ==
  {CellUV(<<0, 0>>), <<CellUV(<<0, 0>>)[1] + 50, CellUV(<<0, 0>>)[2]>>}
SplatVelocities == {<<0, 0>>, <<6000, -2000>>}
SplatColors == {<<1000, 0, 0>>, <<400, 800, 1000>>}
StepDts == {16, 50}

\* a call as the run observes it: the paint and velocity it found and, for a
\* step, the passes it rendered
FluidCall(fn, point, color, passes) ==
  [fn |-> fn, point |-> point, color |-> color, before |-> paintFBO.read,
   velBefore |-> velocityFBO.read, passes |-> passes]

splat(point, vel, color) ==
  /\ Len(fluidCalls) < MaxOps
  /\ setFields(splatFields(Fields, point, vel, color))
  /\ fluidCalls' = Append(fluidCalls,
       FluidCall("splat", point, color, splatPasses(Fields, point, vel, color)))

step(elapsed) ==
  LET r == stepFields(Fields, elapsed) IN
  /\ Len(fluidCalls) < MaxOps
  /\ setFields(r.F)
  /\ fluidCalls' = Append(fluidCalls, FluidCall("step", <<>>, <<>>, r.passes))

clear ==
  /\ Len(fluidCalls) < MaxOps
  /\ setFields(clearFields(Fields))
  /\ fluidCalls' = Append(fluidCalls, FluidCall("clear", <<>>, <<>>, <<>>))

\* the constructor: fresh targets, then this.clear()
InitFluid ==
  /\ velocityFBO = createDoubleFBO
  /\ paintFBO = createDoubleFBO
  /\ pressureFBO = createDoubleFBO
  /\ divergenceFBO = ClearGrid
  /\ fluidCalls = <<>>

NextFluid ==
  \/ \E point \in SplatPoints, vel \in SplatVelocities, color \in SplatColors :
       splat(point, vel, color) /\ UNCHANGED <<ctlVars, bristleVars, layerVars, domVars, lastOp>>
  \/ \E elapsed \in StepDts : step(elapsed) /\ UNCHANGED <<ctlVars, bristleVars, layerVars, domVars, lastOp>>
  \/ clear /\ UNCHANGED <<ctlVars, bristleVars, layerVars, domVars, lastOp>>

----------------------------------------------------------------------------
\* BristleSystem (src/unnamed/part_006): joints in micrometres in the local
\* frame of the brush head, parameters in thousandths, time in ticks

BristleCount == 2
MaxUpdates == 2

Bristles == 0..(BristleCount - 1)

\* PHYSICS_CONFIG
bristleLength == 12500
jointsPerBristle == 4
segmentsPerBristle == jointsPerBristle - 1
segmentLength == (bristleLength + 1) \div segmentsPerBristle
baseDamping == 920
gravity == -20000
friction == 400
edgeFriction == 600
constraintIterations == 4
collisionPushback == 800
physicsTimestep == 100
\* BRUSH_CONFIG
headWidth == 7500
headDepth == 2000
fanAngle == 1963             \* PI / 16, in 1/10000 rad
tipCurveRadius == 4000
rowCount == 6
colCount == 22
centerStiffness == 220
edgeStiffness == 80

TicksPerSecond == 12000
\* Math.min(deltaTime, 0.1): the double 0.1 is larger than twelve steps of the
\* double 1/120 by 6e-17, an excess the accumulator keeps; one tick stands
\* for it
MaxDeltaTime == 1201
\* currentLen > 0.00001
MinSegment == 10

Abs(x) == IF x < 0 THEN -x ELSE x

\* a / b rounded to the nearest integer, b > 0
RDiv(a, b) ==
  IF a >= 0 THEN (2 * a + b) \div (2 * b) ELSE -((b - 2 * a) \div (2 * b))

RECURSIVE Newton(_, _)
Newton(n, x) ==
  LET y == (x + n \div x) \div 2 IN IF y >= x THEN x ELSE Newton(n, y)

\* Math.sqrt, rounded down
ISqrt(n) == IF n <= 0 THEN 0 ELSE Newton(n, Min(n, 46340))

VAdd(a, b) == <<a[1] + b[1], a[2] + b[2], a[3] + b[3]>>
VSub(a, b) == <<a[1] - b[1], a[2] - b[2], a[3] - b[3]>>
VMulDiv(a, m, d) == <<RDiv(a[1] * m, d), RDiv(a[2] * m, d), RDiv(a[3] * m, d)>>
VLen(a) == ISqrt(a[1] * a[1] + a[2] * a[2] + a[3] * a[3])

\* initializePhysics: place of bristle i in the head, in thousandths
tx(i) == ((i % colCount) * 1000) \div (colCount - 1) - 500
ty(i) == ((i \div colCount) * 1000) \div (rowCount - 1) - 500

\* the micro-jitter Math.random() adds to the bases: none, or one sample
NoJitter == [i \in Bristles |-> <<0, 0>>]
Jitters ==
  {NoJitter, [i \in Bristles |-> IF i % 2 = 0 THEN <<60, -30>> ELSE <<-40, 20>>]}

basePosition(i, jit) ==
  <<RDiv(tx(i) * headWidth, 1000) + jit[1],
    RDiv(ty(i) * headDepth, 1000) + jit[2],
    RDiv(ISqrt(Max(0, 1000000 - 4 * tx(i) * tx(i))) * tipCurveRadius, 1000)>>

\* this.restDirections[i], in 1/10000: sine and cosine of the fan angle by
\* their Taylor polynomials, then normalised
restDirection(i) ==
  LET fanAmount == RDiv(Abs(tx(i)) * fanAngle, 1000)
      sq   == RDiv(fanAmount * fanAmount, 10000)
      sin  == fanAmount - RDiv(fanAmount * sq, 60000)
      cos  == 10000 - RDiv(sq, 2)
      dirX == sin * (IF tx(i) < 0 THEN -1 ELSE 1)
      len  == ISqrt(dirX * dirX + cos * cos)
  IN <<RDiv(dirX * 10000, len), 0, RDiv(cos * 10000, len)>>

edgeness(i) == Abs(tx(i)) * 2
bristleStiffness(i) ==
  centerStiffness + RDiv((edgeStiffness - centerStiffness) * edgeness(i), 1000)
bristleDamping(i) == baseDamping - RDiv(edgeness(i) * 40, 1000)
bristleFriction(i) == friction + RDiv((edgeFriction - friction) * edgeness(i), 1000)

initialJoints(i, jit) ==
  LET base == basePosition(i, jit)
      dir  == restDirection(i)
      at(j) == VAdd(base, VMulDiv(dir, segmentLength * j, 10000))
  IN <<at(0), at(1), at(2), at(3)>>

\* stepPhysics, Verlet integration of one movable joint
integrate(curr, prev, damping, dt) ==
  LET vel == VMulDiv(VSub(curr, prev), damping, 1000)
      g   == RDiv(gravity * dt * dt, TicksPerSecond * TicksPerSecond)
  IN <<curr[1] + vel[1], curr[2] + vel[2], curr[3] + vel[3] + g>>

\* stepPhysics, angular stiffness: blend a joint toward its rest position
blend(parent, joint, i) ==
  LET rest == VAdd(parent, VMulDiv(restDirection(i), segmentLength, 10000))
  IN VAdd(joint, VMulDiv(VSub(rest, joint), bristleStiffness(i), 1000))

\* satisfyDistanceConstraints, segment j between p0 and p1: <<p0', p1'>>
constrainSegmentSplit(j, p0, p1) ==
  LET d          == VSub(p1, p0)
      currentLen == VLen(d)
      half       == VMulDiv(d, segmentLength - currentLen, 2 * currentLen)
  IN IF currentLen > MinSegment THEN <<VSub(p0, half), VAdd(p1, half)>>
     ELSE <<p0, p1>>

constrainSegment(j, p0, p1) ==
  LET d          == VSub(p1, p0)
      currentLen == VLen(d)
      full       == VMulDiv(d, segmentLength - currentLen, currentLen)
      half       == VMulDiv(d, segmentLength - currentLen, 2 * currentLen)
  IN IF currentLen <= MinSegment THEN <<p0, p1>>
     ELSE IF j = 0 THEN <<p0, VAdd(p1, full)>>
     ELSE <<VSub(p0, half), VAdd(p1, half)>>

\* one pass of satisfyDistanceConstraints over the joints of one bristle
satisfyDistanceConstraints(J) ==
  LET s0 == constrainSegment(0, J[1], J[2])
      s1 == constrainSegment(1, s0[2], J[3])
      s2 == constrainSegment(2, s1[2], J[4])
  IN <<s0[1], s1[1], s2[1], s2[2]>>

\* statement order: v is computed, and stored, before e is
Having(v, e) == IF v = v THEN e ELSE e

RECURSIVE constraintPasses(_, _)
constraintPasses(J, n) ==
  IF n = 0 THEN J
  ELSE Having(J, constraintPasses(satisfyDistanceConstraints(J), n - 1))

\* stepPhysics for bristle i: <<joints, previous joints>>
stepBristle(i, J, P, dt) ==
  LET c1 == integrate(J[2], P[2], bristleDamping(i), dt)
      c2 == integrate(J[3], P[3], bristleDamping(i), dt)
      c3 == integrate(J[4], P[4], bristleDamping(i), dt)
      b1 == blend(J[1], c1, i)
      b2 == blend(b1, c2, i)
      b3 == blend(b2, c3, i)
  IN <<constraintPasses(<<J[1], b1, b2, b3>>, constraintIterations),
       <<P[1], J[2], J[3], J[4]>>>>

\* a function built texel by texel, or bristle by bristle, once
Stored(f) == f @@ f

stepPhysics(S, dt) ==
  LET r == Stored([i \in Bristles |-> stepBristle(i, S.J[i], S.P[i], dt)])
  IN [J |-> Stored([i \in Bristles |-> r[i][1]]),
      P |-> Stored([i \in Bristles |-> r[i][2]])]

\* largest | segment length - rest length | over the segments of all bristles
SegError(J) ==
  LET e(i, s) == Abs(VLen(VSub(J[i][s + 1], J[i][s])) - segmentLength)
      worst(i) == Max(e(i, 1), Max(e(i, 2), e(i, 3)))
  IN IF \E i \in Bristles : worst(i) > 0
       THEN CHOOSE m \in {worst(i) : i \in Bristles} :
              \A i \in Bristles : worst(i) <= m
       ELSE 0

\* updatePhysics: how much of deltaTime the accumulator takes
cappedDeltaLate(deltaTime) == Min(deltaTime, 2 * MaxDeltaTime)

cappedDelta(deltaTime) == Min(deltaTime, MaxDeltaTime)

\* the while loop of updatePhysics; n counts the substeps and err keeps the
\* largest segment error seen after the constraint solving of a substep
RECURSIVE catchUp(_, _, _, _)
substep(S1, acc, n, err) ==
  Having(<<S1, err>>,
         catchUp(S1, acc - physicsTimestep, n + 1, Max(err, SegError(S1.J))))

catchUp(S, acc, n, err) ==
  IF acc >= physicsTimestep
    THEN substep(stepPhysics(S, physicsTimestep), acc, n, err)
    ELSE [J |-> S.J, P |-> S.P, acc |-> acc, n |-> n, err |-> err]

updatePhysics(S, acc, deltaTime) == catchUp(S, acc + cappedDelta(deltaTime), 0, 0)

\* applySplay for the joints of one bristle
applySplay(J, p) ==
  LET normalizedX == RDiv(J[1][1] * 1000, headWidth \div 2)
      normalizedY == RDiv(J[1][2] * 1000, headDepth \div 2)
      ax == RDiv(normalizedX * p, 1000)
      ay == RDiv(normalizedY * p, 1000)
      moved(j) ==
        <<J[j + 1][1] + RDiv(ax * 800 * j * j, 9000),
          J[j + 1][2] + RDiv(ay * 400 * j * j, 9000),
          J[j + 1][3] - RDiv(p * 300 * j * j, 9000)>>
  IN IF p <= 0 THEN J ELSE <<J[1], moved(1), moved(2), moved(3)>>

\* The nail under the brush: no mesh (NoMesh), or a flat nail facing the
\* brush at height z > 0 in the local frame, its face normal <<0, 0, -1>>, extending
\* NailHalfWidth to each side, with UV running linearly over it; a geometry
\* without uv attribute gives hits without uv
NailHalfWidth == 10000
Nail(z, uvAttribute) == [z |-> z, uvAttribute |-> uvAttribute]
NoMesh == Nail(0, FALSE)
NailMeshes == {NoMesh, Nail(6000, TRUE), Nail(10000, FALSE), Nail(13500, TRUE)}

\* raycaster.intersectObject from the base joint toward the tip joint:
\* [hit |-> FALSE] or the first hit with its distance and point
raycast(base, tip, nailMesh) ==
  LET z   == nailMesh.z
      d   == VSub(tip, base)
      len == VLen(d)
      dist  == RDiv((z - base[3]) * len, d[3])
      point == <<base[1] + RDiv(d[1] * (z - base[3]), d[3]),
                 base[2] + RDiv(d[2] * (z - base[3]), d[3]), z>>
  IN IF len = 0 \/ d[3] <= 0 \/ z <= base[3] THEN [hit |-> FALSE]
     ELSE IF dist > (bristleLength * 13) \div 10 THEN [hit |-> FALSE]
     ELSE IF Abs(point[1]) > NailHalfWidth \/ Abs(point[2]) > NailHalfWidth
       THEN [hit |-> FALSE]
     ELSE [hit |-> TRUE, distance |-> dist, point |-> point,
           uv |-> IF nailMesh.uvAttribute
                    THEN <<(point[1] + NailHalfWidth) \div 20,
                           (point[2] + NailHalfWidth) \div 20>>
                    ELSE NoUV]

\* estimateUVFromHit: the hit point relative to the bounding box of the
\* geometry, or no UV when that falls outside [0, 1]
estimateUVFromHit(hit, nailMesh) ==
  LET u == ((hit.point[1] + NailHalfWidth) * One) \div (2 * NailHalfWidth)
      v == ((hit.point[2] + NailHalfWidth) * One) \div (2 * NailHalfWidth)
  IN IF nailMesh = NoMesh THEN NoUV
     ELSE IF u >= 0 /\ u <= One /\ v >= 0 /\ v <= One THEN <<u, v>>
     ELSE NoUV

\* the pressure of a contact without the floor of 0.15
contactPressureNoFloor(penetrationDepth) ==
  Min(1000, RDiv(penetrationDepth * 1000, bristleLength \div 2))

\* the pressure recorded with a contact: penetration over half the bristle
\* length, at most 1 and at least 0.15
contactPressure(penetrationDepth) ==
  Max(150, Min(1000, RDiv(penetrationDepth * 1000, bristleLength \div 2)))

\* the body of the loop of handleCollision for bristle i:
\* [J |-> joints, contact |-> <<>> or <<contact>>]
collideBristle(i, J, P, nailMesh) ==
  LET h == raycast(J[1], J[4], nailMesh)
      z == nailMesh.z
      penetrationDepth == bristleLength - h.distance
      hitPoint == <<h.point[1], h.point[2], h.point[3] - collisionPushback>>
      vel == VSub(J[4], P[4])
      frictionFactor == 1000 - bristleFriction(i)
      tip == <<hitPoint[1] + RDiv(vel[1] * frictionFactor, 1000),
               hitPoint[2] + RDiv(vel[2] * frictionFactor, 1000),
               hitPoint[3]>>
      j2Depth == J[3][3] - z
      joint2 == IF penetrationDepth > segmentLength /\ j2Depth > 0
                  THEN <<J[3][1], J[3][2],
                         J[3][3] - (j2Depth + collisionPushback \div 2)>>
                  ELSE J[3]
      uv == IF h.uv # NoUV THEN h.uv ELSE estimateUVFromHit(h, nailMesh)
  IN IF h.hit /\ h.distance < (bristleLength * 115) \div 100
       THEN [J |-> <<J[1], J[2], joint2, tip>>,
             contact |-> IF uv # NoUV
                           THEN <<Contact(uv, contactPressure(penetrationDepth), i)>>
                         ELSE <<>>]
       ELSE [J |-> J, contact |-> <<>>]

RECURSIVE contactsOf(_, _)
contactsOf(r, i) ==
  IF i = BristleCount THEN <<>> ELSE r[i].contact \o contactsOf(r, i + 1)

\* handleCollision: [J |-> joints of all bristles, contacts |-> contactPoints]
handleCollision(J, P, nailMesh, contacting) ==
  IF nailMesh = NoMesh \/ ~contacting THEN [J |-> J, contacts |-> <<>>]
  ELSE LET r == Stored([i \in Bristles |-> collideBristle(i, J[i], P[i], nailMesh)])
       IN [J |-> Stored([i \in Bristles |-> r[i].J]), contacts |-> contactsOf(r, 0)]

\* the matrix of segment s composed whatever the length of the segment
segmentMatrixAlways(J, s, old) ==
  [position |-> J[s], direction |-> VSub(J[s + 1], J[s]),
   lengthScale |-> RDiv(VLen(VSub(J[s + 1], J[s])) * 1000, segmentLength),
   taperScale |-> 1000 - (s - 1) * 250]

\* updateInstanceMatrices: the matrix of segment s of one bristle is composed
\* anew unless the segment is shorter than 0.00001
segmentMatrix(J, s, old) ==
  LET d == VSub(J[s + 1], J[s])
      currentLength == VLen(d)
  IN IF currentLength > MinSegment
       THEN [position |-> J[s], direction |-> d,
             lengthScale |-> RDiv(currentLength * 1000, segmentLength),
             taperScale |-> 1000 - (s - 1) * 250]
       ELSE old

NoMatrix == [position |-> <<0, 0, 0>>, direction |-> <<0, 0, 1>>,
             lengthScale |-> 1000, taperScale |-> 1000]

updateInstanceMatrices(J, M) ==
  Stored([i \in Bristles |->
    <<segmentMatrix(J[i], 1, M[i][1]), segmentMatrix(J[i], 2, M[i][2]),
      segmentMatrix(J[i], 3, M[i][3])>>])

\* what the brush does to the bristle system before update():
\* bristleSystem.pressure and bristleSystem.isContacting are assigned
BristlePressures == {0, 1000}

setBristleInput(p) ==
  /\ pressure' = p
  /\ isContacting' = (p > 0)
  /\ UNCHANGED <<contactPoints, hostVars, fluidVars, bristleVars, layerVars, domVars, lastOp>>

\* frame times handed to update(), in ticks: less than a step, two steps,
\* a stalled frame of one second
DeltaTimes == {99, 200, 12000}

\* the end of update(): the joints, the contacts and the instance matrices
\* are stored; phys is what updatePhysics left, col what handleCollision did
bristleStore(deltaTime, phys, col) ==
  /\ Len(bristleCalls) < MaxUpdates
  /\ jointPositions' = col.J
  /\ prevJointPositions' = phys.P
  /\ physicsAccumulator' = phys.acc
  /\ contactPoints' = col.contacts
  /\ instanceMatrix' = updateInstanceMatrices(col.J, instanceMatrix)
  /\ bristleCalls' = Append(bristleCalls,
       [deltaTime |-> deltaTime, carried |-> physicsAccumulator,
        substeps |-> phys.n, segError |-> phys.err,
        pressure |-> pressure, collided |-> Len(col.contacts),
        before |-> jointPositions])
  /\ UNCHANGED <<pressure, isContacting, hostVars, fluidVars, domVars,
                 layerVars, lastOp>>

\* handleCollision on what updatePhysics left
bristleCollide(deltaTime, nailMesh, phys) ==
  bristleStore(deltaTime, phys,
               handleCollision(phys.J, phys.P, nailMesh, isContacting))

\* update(deltaTime, nailMesh, raycaster): applySplay, updatePhysics,
\* handleCollision, updateInstanceMatrices
bristleUpdate(deltaTime, nailMesh) ==
  bristleCollide(
    deltaTime, nailMesh,
    updatePhysics(
      [J |-> Stored([i \in Bristles |-> applySplay(jointPositions[i], pressure)]),
       P |-> prevJointPositions],
      physicsAccumulator, deltaTime))

\* the constructor: initializePhysics() with its first updateInstanceMatrices()
InitBristle(jit) ==
  /\ jointPositions = [i \in Bristles |-> initialJoints(i, jit[i])]
  /\ prevJointPositions = [i \in Bristles |-> initialJoints(i, jit[i])]
  /\ physicsAccumulator = 0
  /\ instanceMatrix =
       updateInstanceMatrices([i \in Bristles |-> initialJoints(i, jit[i])],
                              [i \in Bristles |-> <<NoMatrix, NoMatrix, NoMatrix>>])
  /\ bristleCalls = <<>>

NextBristle ==
  \/ \E p \in BristlePressures : setBristleInput(p)
  \/ \E deltaTime \in DeltaTimes, nailMesh \in NailMeshes :
       bristleUpdate(deltaTime, nailMesh)

InitJittered ==
  /\ InitCtl
  /\ ~renderer
  /\ InitFluid
  /\ InitLayers
  /\ \E jit \in Jitters : InitBristle(jit)

Init == InitCtl /\ InitFluid /\ InitLayers /\ InitBristle(NoJitter)

\* a component on its own, under a brush constructed without a renderer
InitAlone == Init /\ ~renderer

Next ==
  \/ \E page \in Pages : activate(page) /\ UNCHANGED <<fluidVars, bristleVars, layerVars, lastOp>>
  \/ deactivate /\ UNCHANGED <<fluidVars, bristleVars, layerVars, lastOp>>
  \/ setRenderer /\ UNCHANGED <<fluidVars, bristleVars, layerVars, domVars, lastOp>>
  \/ \E enabled \in BOOLEAN :
        setUseFluidSim(enabled) /\ UNCHANGED <<fluidVars, bristleVars, layerVars, domVars, lastOp>>
  \/ clearNail /\ UNCHANGED <<fluidVars, bristleVars, layerVars, domVars, lastOp>>
  \/ \E finger \in Nails :
        setActiveNail(finger) /\ UNCHANGED <<fluidVars, bristleVars, layerVars, domVars, lastOp>>
  \/ \E pt \in ScreenPoints :
        pointerdown(pt) /\ UNCHANGED <<fluidVars, bristleVars, layerVars, domVars, lastOp>>
  \/ \E pt \in ScreenPoints, ep \in EventPressures :
        pointermove(pt, ep) /\ UNCHANGED <<fluidVars, bristleVars, layerVars, domVars, lastOp>>
  \/ pointerup /\ UNCHANGED <<fluidVars, bristleVars, layerVars, domVars, lastOp>>
  \/ \E elapsed \in FrameTimes, cl \in ContactLists :
        update(elapsed, cl) /\ UNCHANGED <<fluidVars, bristleVars, layerVars, domVars, lastOp>>

Spec == Init /\ [][Next]_vars

\* The controller wired to a hand model whose nails may not be set up yet,
\* under a pointer that is over the index nail with a UV, over the index
\* nail on a face without UV, or over nothing
HandPoints ==
  {[nail |-> "index", uv |-> UVa], [nail |-> "index", uv |-> NoUV],
   [nail |-> "none", uv |-> NoUV]}
HandFrameTimes == {50}
HandContactLists == {<<>>, <<Contact(UVa, 150, 0), Contact(UVc, 1000, 1)>>}

InitHand ==
  /\ \E nails \in {{}, Nails} : InitCtlWith(<<>>, nails)
  /\ InitFluid
  /\ InitLayers
  /\ InitBristle(NoJitter)

NextHand ==
  \/ \E page \in Pages : activate(page) /\ UNCHANGED <<fluidVars, bristleVars, layerVars, lastOp>>
  \/ deactivate /\ UNCHANGED <<fluidVars, bristleVars, layerVars, lastOp>>
  \/ setRenderer /\ UNCHANGED <<fluidVars, bristleVars, layerVars, domVars, lastOp>>
  \/ \E enabled \in BOOLEAN :
        setUseFluidSim(enabled) /\ UNCHANGED <<fluidVars, bristleVars, layerVars, domVars, lastOp>>
  \/ load /\ UNCHANGED <<fluidVars, bristleVars, layerVars, domVars, lastOp>>
  \/ clearNail /\ UNCHANGED <<fluidVars, bristleVars, layerVars, domVars, lastOp>>
  \/ \E finger \in Nails :
        setActiveNail(finger) /\ UNCHANGED <<fluidVars, bristleVars, layerVars, domVars, lastOp>>
  \/ \E pt \in HandPoints :
        pointerdown(pt) /\ UNCHANGED <<fluidVars, bristleVars, layerVars, domVars, lastOp>>
  \/ \E pt \in HandPoints :
        pointermove(pt, 0) /\ UNCHANGED <<fluidVars, bristleVars, layerVars, domVars, lastOp>>
  \/ pointerup /\ UNCHANGED <<fluidVars, bristleVars, layerVars, domVars, lastOp>>
  \/ \E elapsed \in HandFrameTimes, cl \in HandContactLists :
        update(elapsed, cl) /\ UNCHANGED <<fluidVars, bristleVars, layerVars, domVars, lastOp>>

SpecHand == InitHand /\ [][NextHand]_vars

----------------------------------------------------------------------------
\* The brush with its solver: the controller's operations with the splat,
\* step and clear calls they make carried out on the solver's render targets

\* this.color of the constructor, '#ff2a6d', in thousandths
PolishColor == <<1000, 165, 427>>

\* the pointer over the active nail at two places a texel of the solver's
\* grid covers, or over nothing
BrushPoints ==
  {[nail |-> "index", uv |-> uv] : uv \in SplatPoints}
    \cup {[nail |-> "none", uv |-> NoUV]}

\* the pointer where its ray misses the active nail: over nothing, or over
\* the nail of another finger
MissPoints ==
  {[nail |-> "none", uv |-> NoUV], [nail |-> "middle", uv |-> UVa]}

BrushEventPressures == {0, 500}
BrushFrameTimes == {50}
BrushContactLists == {<<>>, <<Contact(UVa, 1000, 0)>>}

\* the run records the operation called and whether the call before it was
\* a call of the same operation
Did(name) ==
  lastOp' = <<name, lastOp # <<>> /\ lastOp[1] = name>>

\* the targets after the splat and the step of a frame, in call order
fieldsAfter(F, made, dt) ==
  LET splats  == SelectSeq(made, LAMBDA c : c.fn = "splat")
      splatted == IF splats = <<>> THEN F
                  ELSE splatFields(F, splats[1].uv, splats[1].vel, PolishColor)
  IN IF \E i \in 1..Len(made) : made[i].fn = "step"
       THEN Having(splatted, stepFields(splatted, dt).F)
       ELSE splatted

brushUpdate(elapsed, cl) ==
  /\ update(elapsed, cl)
  /\ setFields(fieldsAfter(Fields, calls', Min(elapsed, MaxFrameDt)))
  /\ Did("update")
  /\ UNCHANGED <<fluidCalls, bristleVars, layerVars, domVars>>

brushClearNail ==
  /\ clearNail
  /\ setFields(IF fluidSim = "sim" THEN clearFields(Fields) ELSE Fields)
  /\ Did("clearNail")
  /\ UNCHANGED <<fluidCalls, bristleVars, layerVars, domVars>>

NextBrushOver(points) ==
  \/ \E page \in Pages :
        activate(page) /\ Did("activate") /\ UNCHANGED <<fluidVars, bristleVars, layerVars>>
  \/ deactivate /\ Did("deactivate") /\ UNCHANGED <<fluidVars, bristleVars, layerVars>>
  \/ setRenderer /\ Did("setRenderer") /\ UNCHANGED <<fluidVars, bristleVars, layerVars, domVars>>
  \/ \E enabled \in BOOLEAN :
        /\ setUseFluidSim(enabled)
        /\ Did("setUseFluidSim")
        /\ UNCHANGED <<fluidVars, bristleVars, layerVars, domVars>>
  \/ brushClearNail
  \/ \E pt \in points :
        /\ pointerdown(pt)
        /\ Did("pointerdown")
        /\ UNCHANGED <<fluidVars, bristleVars, layerVars, domVars>>
  \/ \E pt \in points, ep \in BrushEventPressures :
        /\ pointermove(pt, ep)
        /\ Did("pointermove")
        /\ UNCHANGED <<fluidVars, bristleVars, layerVars, domVars>>
  \/ pointerup /\ Did("pointerup") /\ UNCHANGED <<fluidVars, bristleVars, layerVars, domVars>>
  \/ \E elapsed \in BrushFrameTimes, cl \in BrushContactLists : brushUpdate(elapsed, cl)

NextBrush == NextBrushOver(BrushPoints)

NextMiss == NextBrushOver(MissPoints)

SpecBrush == Init /\ [][NextBrush]_vars

\* the scenario in which the pointer never intersects the nail
SpecMiss == Init /\ [][NextMiss]_vars

----------------------------------------------------------------------------
\* BrushInputHandler on its own: a handler constructed on the canvas element,
\* attach() and detach() called on it in any order, pointer events of a
\* mouse dispatched by the element, updatePressure() called once a frame

\* event.pressure of a device without pressure support: 0.5 while a button
\* is pressed and 0 otherwise
devicePressure(buttons) == IF buttons THEN 500 ELSE 0

InputPoints == {[nail |-> "index", uv |-> UVa], [nail |-> "none", uv |-> NoUV]}

\* deltaTime of a frame, ms
InputFrameTimes == {25, 50}

\* the element calls, in order of registration, the callbacks registered for
\* the type of the event
RECURSIVE dispatch(_, _, _, _, _)
dispatch(L, h, type, pt, ep) ==
  IF L = <<>> THEN h
  ELSE LET l  == Head(L)
           h1 == IF l.type # type \/ l.owner # h.id THEN h
                 ELSE IF l.fn = "onPointerDown" THEN onPointerDown(h, pt)
                 ELSE IF l.fn = "onPointerMove" THEN onPointerMove(h, pt, ep)
                 ELSE onPointerUp(h)
       IN dispatch(Tail(L), h1, type, pt, ep)

\* the pressure the latest updatePressure() of the current hold or release
\* left, as the run recorded it; -1 when there has been none since the
\* pointer went down or up
Ramped == IF Len(lastOp) = 3 THEN lastOp[3] ELSE -1

InputDid(name, ramped) ==
  lastOp' = <<name, lastOp # <<>> /\ lastOp[1] = name, ramped>>

\* everything but the handler and the element's listener list
inputFrame ==
  UNCHANGED <<isActive, isPainting, fluidSim, useFluidSim, renderer, lastUV,
              activeNail, canvas, lastPaintedPos, paintedCells, simPaint,
              pressure, isContacting, contactPoints, calls, lastUVStale,
              lastPosStale, frames, fluidVars, bristleVars, layerVars, visible,
              cursorClass>>

\* new BrushInputHandler(camera, domElement)
inputNew ==
  /\ inputHandler = NoHandler
  /\ inputHandler' = NewHandler
  /\ InputDid("new", -1)
  /\ UNCHANGED listeners
  /\ inputFrame

inputAttach ==
  /\ inputHandler.attached
  /\ listeners' = attach(listeners, inputHandler.id)
  /\ InputDid("attach", Ramped)
  /\ UNCHANGED inputHandler
  /\ inputFrame

inputDetach ==
  /\ inputHandler.attached
  /\ listeners' = detach(listeners, inputHandler.id)
  /\ InputDid("detach", Ramped)
  /\ UNCHANGED inputHandler
  /\ inputFrame

\* a pointer event of the mouse on the element: pointerdown when its first
\* button goes down, pointermove with or without a button pressed (a button
\* is pressed during the whole of a hold; it can also be pressed while the
\* handler has the pointer up: after the pointer left the element, or when
\* the button went down outside it)
inputEvent(type, pt, buttons) ==
  /\ inputHandler.attached
  /\ type = "pointerdown" => (~inputHandler.isPointerDown /\ buttons)
  /\ type \in {"pointerup", "pointercancel"} => ~buttons
  /\ inputHandler.isPointerDown =>
       (buttons \/ type \in {"pointerup", "pointercancel"})
  /\ inputHandler' = dispatch(listeners, inputHandler, type, pt,
                              devicePressure(buttons))
  /\ InputDid(type, IF inputHandler'.isPointerDown = inputHandler.isPointerDown
                      THEN Ramped ELSE -1)
  /\ UNCHANGED listeners
  /\ inputFrame

\* updatePressure(deltaTime), the first call of every frame of the brush
inputUpdatePressure(dt) ==
  /\ inputHandler.attached
  /\ inputHandler' = updatePressure(inputHandler, dt)
  /\ InputDid("updatePressure", inputHandler'.simulatedPressure)
  /\ UNCHANGED listeners
  /\ inputFrame

NextInput ==
  \/ inputNew
  \/ inputAttach
  \/ inputDetach
  \/ \E type \in PointerTypes, pt \in InputPoints, buttons \in BOOLEAN :
        inputEvent(type, pt, buttons)
  \/ \E dt \in InputFrameTimes : inputUpdatePressure(dt)

SpecInput == InitAlone /\ [][NextInput]_vars

----------------------------------------------------------------------------
\* BristlePaintApplicator on its own: any caller, any sequence of paint()
\* and resetStroke() calls on the active nail's context

PaintContactLists ==
  ContactLists \cup
    {<<Contact(UVc, 1000, 0)>>, <<Contact(UVb, 0, 0), Contact(UVa, 1000, 1)>>,
     <<Contact(<<100, 900>>, 400, 0)>>}

applicatorPaint(cl) ==
  LET r == paint(lastPaintedPos, paintedCells, cl) IN
  /\ lastPaintedPos' = r.last
  /\ paintedCells' = r.cells
  /\ canvas' = IF r.ret = 1 THEN [canvas EXCEPT ![activeNail].strokes = TRUE]
                            ELSE canvas
  /\ calls' = <<Call("paint", r.pos, lastPaintedPos, FALSE, r.ret,
                     IF r.seg = <<>> THEN 0 ELSE 1, paintedCells)>>
  /\ UNCHANGED <<isActive, isPainting, fluidSim, useFluidSim, renderer, lastUV,
                 inputHandler, activeNail, simPaint, pressure, isContacting,
                 contactPoints, lastUVStale, lastPosStale, frames>>

applicatorResetStroke ==
  /\ lastPaintedPos' = NoPos
  /\ calls' = <<Plain("resetStroke")>>
  /\ UNCHANGED <<isActive, isPainting, fluidSim, useFluidSim, renderer, lastUV,
                 inputHandler, activeNail, canvas, paintedCells, simPaint,
                 pressure, isContacting, contactPoints, lastUVStale,
                 lastPosStale, frames>>

NextPaint ==
  \/ \E cl \in PaintContactLists :
        applicatorPaint(cl) /\ UNCHANGED <<fluidVars, bristleVars, layerVars, domVars, lastOp>>
  \/ applicatorResetStroke /\ UNCHANGED <<fluidVars, bristleVars, layerVars, domVars, lastOp>>

SpecPaint == InitAlone /\ [][NextPaint]_vars

SpecFluid == InitAlone /\ [][NextFluid]_vars

SpecBristle == InitJittered /\ [][NextBristle]_vars

\* updateInstanceMatrices() as a function of the object it is called on: the
\* joints of a bristle as the physics may have left them, at rest or with one
\* segment collapsed to a point, exactly 0.00001 long or just longer
Collapsed(J, s, len) ==
  [j \in 1..jointsPerBristle |->
     IF j = s + 1 THEN VAdd(J[s], <<0, 0, len>>) ELSE J[j]]

JointShapes(i) ==
  LET J == initialJoints(i, <<0, 0>>)
  IN {J, Collapsed(J, 1, 0), Collapsed(J, 2, 0), Collapsed(J, 3, 0),
      Collapsed(J, 3, MinSegment), Collapsed(J, 3, MinSegment + 1)}

InitMatrices ==
  /\ \E cl \in ContactLists : InitCtlWith(cl, Nails)
  /\ ~renderer
  /\ InitFluid
  /\ InitLayers
  /\ jointPositions \in {Stored(f) : f \in [Bristles -> UNION {JointShapes(i) : i \in Bristles}]}
  /\ \A i \in Bristles : jointPositions[i] \in JointShapes(i)
  /\ prevJointPositions = [i \in Bristles |-> initialJoints(i, <<0, 0>>)]
  /\ physicsAccumulator \in {0, physicsTimestep - 1}
  /\ instanceMatrix =
       updateInstanceMatrices([i \in Bristles |-> initialJoints(i, <<0, 0>>)],
                              [i \in Bristles |-> <<NoMatrix, NoMatrix, NoMatrix>>])
  /\ bristleCalls = <<>>

\* one call of updateInstanceMatrices()
refreshInstanceMatrices ==
  /\ instanceMatrix' = updateInstanceMatrices(jointPositions, instanceMatrix)
  /\ UNCHANGED <<jointPositions, prevJointPositions, physicsAccumulator,
                 bristleCalls, ctlVars, fluidVars, domVars, layerVars,
                 lastOp>>

NextMatrices == refreshInstanceMatrices

SpecMatrices == InitMatrices /\ [][NextMatrices]_vars

----------------------------------------------------------------------------
\* Claims about the controller (checked under Spec)

\* C1: immediately after clearNail() the fluid paint field is empty and the
\* fallback painter's coverage grid is empty, so getCoverage() returns 0.
C1_ClearNailEmptiesBoth ==
  CallsOf("onCoverageChange") # {} =>
    simPaint = {} /\ paintedCells = {} /\ getCoverage = 0

\* C2: each nail owns its paint: whatever update() copied into a nail's
\* canvas was splatted while that nail was the active nail.
C2_CanvasHoldsOwnPaint ==
  \A n \in Nails : \A s \in canvas[n].image : s[1] = n

\* C3: no splat takes its velocity from a lastUV recorded before a release,
\* and no fallback segment starts at a last painted point recorded before a
\* release, whatever the interleaving of pointer events and frames.
C3_NoStaleConnection ==
  \A i \in 1..Len(calls) :
    /\ calls[i].fn = "splat" => ~calls[i].stale
    /\ calls[i].fn = "paint" /\ calls[i].draws > 0 => ~calls[i].stale

C10_ThrottledPaintIsNoOp ==
  \A i \in CallsOf("paint") :
    (/\ calls[i].uv # NoPos
     /\ calls[i].vel # NoPos
     /\ TooClose(calls[i].uv, calls[i].vel)) =>
      /\ calls[i].ret = 0
      /\ calls[i].draws = 0
      /\ paintedCells = calls[i].cells
      /\ lastPaintedPos = calls[i].vel

\* C10 witness: a paint() whose centroid moved, by less than minDistance,
\* away from the last painted point, on a grid earlier strokes had covered.
C10_Witness ==
  \E i \in CallsOf("paint") :
    /\ calls[i].uv # NoPos
    /\ calls[i].vel # NoPos
    /\ calls[i].uv # calls[i].vel
    /\ TooClose(calls[i].uv, calls[i].vel)
    /\ calls[i].cells # {}

\* C26: no update() calls both splat and paint, whether or not there is a
\* solver, whatever useFluidSim is and was, wherever the pointer is.
C26_SplatExcludesPaint ==
  CallsOf("splat") = {} \/ CallsOf("paint") = {}

\* C26 witness: a frame painted through the fallback painter although the
\* solver exists and holds paint splatted before setUseFluidSim(false).
C26_Witness ==
  /\ CallsOf("bristleSystem.update") # {}
  /\ CallsOf("paint") # {}
  /\ fluidSim = "sim" /\ ~useFluidSim
  /\ simPaint # {}

\* the step fired the named callback
Fired(name) == \E i \in 1..Len(calls') : calls'[i].fn = name

\* C27: onPaintStart and onPaintEnd alternate, onPaintStart first. With
\* isPainting telling whether a stroke is open (false after construction):
\* onPaintStart fires exactly in the steps that open a stroke, onPaintEnd
\* exactly in the steps that close one, deactivate() included.
C27_StartEndAlternate ==
  [][/\ Fired("onPaintStart") <=> (~isPainting /\ isPainting')
     /\ Fired("onPaintEnd") <=> (isPainting /\ ~isPainting')]_vars

\* C25: a paint() that finds no last painted point (after construction or
\* resetStroke()) returns 0, draws nothing, leaves the coverage grid and the
\* canvas alone and records the centroid of its contacts; a later paint()
\* nearer than minDistance to the recorded point draws nothing and keeps the
\* point, so a stroke that stays within minDistance of its first point never
\* draws.
C25_FirstPointOnlyRecorded ==
  [][(calls' # <<>> /\ calls'[1].fn = "paint") =>
       /\ lastPaintedPos = NoPos =>
            /\ calls'[1].ret = 0 /\ calls'[1].draws = 0
            /\ paintedCells' = paintedCells
            /\ canvas' = canvas
            /\ lastPaintedPos' = calls'[1].uv
       /\ (lastPaintedPos # NoPos /\ calls'[1].uv # NoPos
             /\ TooClose(calls'[1].uv, lastPaintedPos)) =>
            /\ calls'[1].ret = 0 /\ calls'[1].draws = 0
            /\ paintedCells' = paintedCells
            /\ canvas' = canvas
            /\ lastPaintedPos' = lastPaintedPos]_vars

\* C25 witness: on a canvas nothing was drawn on yet, a paint() found the
\* first point of the stroke recorded and its own centroid elsewhere, nearer
\* than minDistance, and the recorded point still is the first one.
C25_Witness ==
  /\ calls # <<>> /\ calls[1].fn = "paint"
  /\ calls[1].vel # NoPos /\ calls[1].uv # NoPos
  /\ calls[1].uv # calls[1].vel
  /\ TooClose(calls[1].uv, calls[1].vel)
  /\ lastPaintedPos = calls[1].vel
  /\ paintedCells = {}
  /\ \A n \in Nails : ~canvas[n].strokes

\* the last operation was an update() of the active brush
FrameRan == CallsOf("bristleSystem.update") # {}

\* the pose getBrushTransform returned in that frame (update() leaves the
\* pointer state and the active nail as they were)
FramePose ==
  IF inputHandler.attached THEN getBrushTransform(inputHandler, getNailMesh)
  ELSE [isValid |-> FALSE, uv |-> NoUV, pressure |-> 0]

FramePointerDown == inputHandler.attached /\ inputHandler.isPointerDown

C16_FallbackPaints ==
  (FrameRan /\ ~(fluidSim = "sim" /\ useFluidSim)) =>
    /\ CallsOf("splat") = {}
    /\ CallsOf("step") = {}
    /\ CallsOf("copyToCanvas") = {}
    /\ (FramePointerDown /\ FramePose.isValid /\ contactPoints # <<>>) =>
         /\ Cardinality(CallsOf("paint")) = 1
         /\ \A i \in CallsOf("paint") :
              calls[i].uv = getPositionFromContacts(contactPoints)

\* C16 witness: a brush that has a solver, disabled, painted a segment from
\* two bristle contacts through the fallback painter.
C16_Witness ==
  /\ FrameRan /\ fluidSim = "sim" /\ ~useFluidSim
  /\ FramePointerDown /\ FramePose.isValid
  /\ Len(contactPoints) = 2
  /\ \E i \in CallsOf("paint") : calls[i].ret = 1

\* C17: an update() in which the pose is invalid, or the pointer is not
\* down, or no input handler is attached calls neither splat nor paint, and
\* the bristle system reports no contact point.
C17_PaintOnlyWhenValidAndDown ==
  (FrameRan /\ (~inputHandler.attached \/ ~FramePose.isValid \/ ~FramePointerDown)) =>
    /\ CallsOf("splat") = {}
    /\ CallsOf("paint") = {}
    /\ contactPoints = <<>>

\* the step is a frame of the active brush
Frame == frames' = frames + 1

\* the frame called neither splat nor paint and left the solver's paint and
\* the painter's cells as they were
NoPaintApplied ==
  /\ \A i \in 1..Len(calls') : calls'[i].fn \notin {"splat", "paint"}
  /\ simPaint' = simPaint
  /\ paintedCells' = paintedCells

\* the pose of the frame is a hit whose face carries no UV
HitWithoutUV == FramePose'.isValid /\ FramePose'.uv = NoUV

----------------------------------------------------------------------------
\* Claims about the brush with its solver (checked under SpecMiss, SpecBrush)

\* the step just taken was the named operation
Ran(name) == lastOp'[1] = name

\* C11: when the pointer's ray misses the active nail in every frame, every
\* update() of the active brush gets an invalid pose, gets no contact point
\* from the bristle system, calls neither splat nor paint, and leaves the
\* paint field (the solver's paint target, the painter's cells and every
\* nail's canvas) as it was before the update.
C11_MissLeavesPaint ==
  [][(Ran("update") /\ isActive) =>
       /\ ~FramePose'.isValid
       /\ contactPoints' = <<>>
       /\ \A i \in 1..Len(calls') : calls'[i].fn \notin {"splat", "paint"}
       /\ paintFBO'.read = paintFBO.read
       /\ simPaint' = simPaint
       /\ paintedCells' = paintedCells
       /\ canvas' = canvas]_vars

\* C11 witness: a frame with the pointer held down over the nail of another
\* finger stepped the solver and left the paint field empty.
C11_Witness ==
  /\ lastOp # <<>> /\ lastOp[1] = "update"
  /\ FrameRan /\ FramePointerDown
  /\ inputHandler.mouse.nail = "middle"
  /\ ~FramePose.isValid
  /\ CallsOf("step") # {}
  /\ contactPoints = <<>>
  /\ paintFBO.read = ClearGrid

\* the velocity and paint fields of the solver are what they were
FieldsKept == velocityFBO' = velocityFBO /\ paintFBO' = paintFBO

\* C12: deactivate() leaves the solver's velocity and paint fields as they
\* are, no operation but clearNail() changes them while the brush is inactive
\* (update() returns at once), and a paint field that holds paint becomes empty
\* through clearNail() alone.
C12_FieldsSurviveDeactivate ==
  [][/\ Ran("deactivate") => FieldsKept
     /\ (~isActive /\ ~Ran("clearNail")) => FieldsKept
     /\ (paintFBO.read # ClearGrid /\ paintFBO'.read = ClearGrid) => Ran("clearNail")]_vars

\* C12 witness: update() was called on a deactivated brush whose solver holds
\* paint and velocity of an earlier stroke, with the solver still enabled.
C12_Witness ==
  /\ lastOp # <<>> /\ lastOp[1] = "update"
  /\ ~isActive
  /\ fluidSim = "sim" /\ useFluidSim
  /\ paintFBO.read # ClearGrid
  /\ velocityFBO.read # ClearGrid

\* the call before the one just made was a call of the same operation
Repeated(name) == Ran(name) /\ lastOp # <<>> /\ lastOp[1] = name

----------------------------------------------------------------------------
\* Claims about BrushInputHandler (checked under SpecInput)

\* C14: detach() leaves none of the five pointer listeners registered on the
\* element, however many attach() calls came before it and whether or not
\* the pointer is held, and a pointer event that arrives while none is
\* registered changes nothing in the handler.
C14_DetachRemovesAll ==
  [][/\ Ran("detach") => listeners' = <<>>
     /\ (lastOp'[1] \in PointerTypes /\ listeners = <<>>) =>
          inputHandler' = inputHandler]_vars

\* C14 witness: the handler was detached in the middle of a hold, and the
\* pointerup that followed did not reach it.
C14_Witness ==
  /\ lastOp # <<>> /\ lastOp[1] = "pointerup"
  /\ listeners = <<>>
  /\ inputHandler.attached
  /\ inputHandler.isPointerDown
  /\ inputHandler.simulatedPressure = 1000

\* the handler has the pointer down before and after the step
Held == inputHandler.attached /\ inputHandler.isPointerDown
          /\ inputHandler'.isPointerDown

\* the handler has the pointer up before and after the step
Released == inputHandler.attached /\ ~inputHandler.isPointerDown
              /\ ~inputHandler'.isPointerDown

\* C18: with a device that reports no true pressure, during a hold every
\* updatePressure() leaves a simulated pressure at least as high as the
\* updatePressure() before it did, and a pressure that has reached 1 stays 1
\* for the rest of the hold.
C18_RampNeverFalls ==
  [][/\ (Ran("updatePressure") /\ Held /\ Ramped >= 0) =>
          inputHandler'.simulatedPressure >= Ramped
     /\ (Held /\ inputHandler.simulatedPressure = 1000) =>
          inputHandler'.simulatedPressure = 1000]_vars

\* C19: after a release the simulated pressure never rises while the handler
\* has the pointer up, whatever pointermove events arrive, a release leaves
\* it at 0, and the pose of a handler whose pointer is up carries pressure 0.
C19_ReleaseStaysZero ==
  [][/\ Released =>
          inputHandler'.simulatedPressure <= inputHandler.simulatedPressure
     /\ (Released /\ inputHandler.simulatedPressure = 0) =>
          inputHandler'.simulatedPressure = 0
     /\ (inputHandler'.attached /\ ~inputHandler'.isPointerDown) =>
          \A mesh \in {"none", "index"} :
            getBrushTransform(inputHandler', mesh).pressure = 0]_vars

----------------------------------------------------------------------------
\* Claims about FluidSimulator (checked under SpecFluid)

\* the paint field after the i-th call of fluidCalls
PaintAfter(i) ==
  IF i = Len(fluidCalls) THEN paintFBO.read ELSE fluidCalls[i + 1].before

\* C4: after any sequence of splat, step and clear the alpha of every cell of
\* the paint field is in [0,1], and a splat leaves in every cell the maximum
\* of the old alpha and the clamped Gaussian weight, never their sum.
C4_AlphaInUnitRange ==
  /\ \A c \in Cells : paintFBO.read[c][4] \in 0..One
  /\ \A i \in 1..Len(fluidCalls) :
       fluidCalls[i].fn = "splat" =>
         \A c \in Cells :
           LET w == Min(One, splatWeight(CellUV(c), fluidCalls[i].point)) IN
           /\ PaintAfter(i)[c][4] = Max(fluidCalls[i].before[c][4], w)
           /\ PaintAfter(i)[c][4] <= One

\* C4 witness: two splats on the same texel centre, the second one beside a
\* cell that already held partial alpha, then a step that moved the paint;
\* a cell is fully opaque.
C4_Witness ==
  /\ Len(fluidCalls) = 3
  /\ fluidCalls[1].fn = "splat"
  /\ fluidCalls[2].fn = "splat"
  /\ fluidCalls[3].fn = "step"
  /\ \E c \in Cells : fluidCalls[2].before[c][4] \in 1..(One - 1)
  /\ \E c \in Cells : fluidCalls[3].before[c][4] = One
  /\ paintFBO.read # fluidCalls[3].before
  /\ \E c \in Cells : paintFBO.read[c][4] > 0

Between(x, a, b) == Min(a, b) <= x /\ x <= Max(a, b)

\* C5: a splat of colour c at point p that repeats the previous call leaves
\* every colour channel of every cell between its previous value and the
\* channel of c, and leaves the alpha of every cell as it was.
C5_RepeatedSplatConverges ==
  \A i \in 2..Len(fluidCalls) :
    (/\ fluidCalls[i].fn = "splat"
     /\ fluidCalls[i - 1].fn = "splat"
     /\ fluidCalls[i].point = fluidCalls[i - 1].point
     /\ fluidCalls[i].color = fluidCalls[i - 1].color) =>
      \A c \in Cells :
        /\ \A k \in 1..3 :
             Between(PaintAfter(i)[c][k], fluidCalls[i].before[c][k],
                     fluidCalls[i].color[k])
        /\ PaintAfter(i)[c][4] = fluidCalls[i].before[c][4]

\* C5 witness: the third of three identical splats over a cell whose colour
\* had not yet reached the splat colour and moved closer to it.
C5_Witness ==
  /\ Len(fluidCalls) = 3
  /\ \A i \in 1..3 : fluidCalls[i].fn = "splat"
  /\ fluidCalls[1].point = fluidCalls[2].point
  /\ fluidCalls[2].point = fluidCalls[3].point
  /\ fluidCalls[1].color = fluidCalls[2].color
  /\ fluidCalls[2].color = fluidCalls[3].color
  /\ \E c \in Cells, k \in 1..3 :
       /\ fluidCalls[3].before[c][k] # fluidCalls[3].color[k]
       /\ paintFBO.read[c][k] # fluidCalls[3].before[c][k]

\* the velocity field after the i-th call of fluidCalls
VelAfter(i) ==
  IF i = Len(fluidCalls) THEN velocityFBO.read ELSE fluidCalls[i + 1].velBefore

\* C20: every step renders, in this order, velocity advection, paint
\* advection, divergence, pressureIterations Jacobi passes and the gradient
\* subtraction, and each pass reads what the pass before it wrote: paint
\* advection and divergence read the advected velocity, Jacobi pass k+1 reads
\* the pressure of pass k, the gradient subtraction reads the last pressure.
C20_PassesInOrder ==
  \A i \in 1..Len(fluidCalls) :
    fluidCalls[i].fn = "step" =>
      LET P == fluidCalls[i].passes
          n == pressureIterations
      IN /\ Len(P) = n + 4
         /\ P[1].name = "advect"
         /\ P[1].uVelocity = fluidCalls[i].velBefore
         /\ P[1].uSource = fluidCalls[i].velBefore
         /\ P[2].name = "advect"
         /\ P[2].uVelocity = P[1].out
         /\ P[2].uSource = fluidCalls[i].before
         /\ P[3].name = "divergence"
         /\ P[3].uVelocity = P[1].out
         /\ \A k \in 1..n :
              /\ P[3 + k].name = "pressure"
              /\ P[3 + k].uDivergence = P[3].out
              /\ P[3 + k].uPressure = IF k = 1 THEN ClearGrid ELSE P[2 + k].out
         /\ P[n + 4].name = "gradientSubtract"
         /\ P[n + 4].uPressure = P[n + 3].out
         /\ P[n + 4].uVelocity = P[1].out
         /\ PaintAfter(i) = P[2].out
         /\ VelAfter(i) = P[n + 4].out

\* C20 witness: a step over a field a moving brush had splatted: advection
\* changed the velocity and moved the paint, the divergence is not zero, two
\* successive Jacobi passes wrote different pressures and the gradient
\* subtraction changed the velocity.
C20_Witness ==
  \E i \in 1..Len(fluidCalls) :
    /\ fluidCalls[i].fn = "step"
    /\ LET P == fluidCalls[i].passes
           n == pressureIterations
       IN /\ P[1].out # fluidCalls[i].velBefore
          /\ P[2].out # fluidCalls[i].before
          /\ P[3].out # ClearGrid
          /\ \E k \in 1..(n - 1) : P[3 + k].out # P[4 + k].out
          /\ P[n + 4].out # P[1].out

\* the pair of the solver with the given name
PairNamed(pair) ==
  IF pair = "velocity" THEN velocityFBO
  ELSE IF pair = "paint" THEN paintFBO ELSE pressureFBO

\* no pass of P after pass k and before pass l renders to the pair of P[k]
NextOnPair(P, k, l) ==
  k < l /\ \A m \in (k + 1)..(l - 1) : P[m].target[1] # P[k].target[1]

\* C28: read and write of each pair always are its two distinct render
\* targets; no render pass of splat() or step() renders to a target whose
\* texture one of its uniforms holds; after a pass and its swap the pair's
\* read buffer is the target just written, which is what the next pass
\* sampling that pair samples and what the pair reads when the call returns.
C28_PingPong ==
  /\ \A pair \in {"velocity", "paint", "pressure"} :
       {PairNamed(pair).readTarget, PairNamed(pair).writeTarget} = {"A", "B"}
  /\ \A i \in 1..Len(fluidCalls) :
       LET P == fluidCalls[i].passes IN
       /\ \A k \in 1..Len(P) : P[k].target \notin P[k].sampled
       /\ \A k, l \in 1..Len(P) :
            (P[k].target # DivergenceTarget /\ NextOnPair(P, k, l)) =>
              \A t \in P[l].sampled : t[1] = P[k].target[1] => t = P[k].target
       /\ \A k \in 1..Len(P) :
            (/\ i = Len(fluidCalls)
             /\ P[k].target # DivergenceTarget
             /\ \A m \in (k + 1)..Len(P) : P[m].target[1] # P[k].target[1]) =>
              /\ ReadOf(P[k].target[1], PairNamed(P[k].target[1])) = P[k].target
              /\ PairNamed(P[k].target[1]).read = P[k].out

\* C28 witness: after a splat and a step the velocity pair, swapped three
\* times, reads from its second target and the paint pair, swapped twice,
\* from its first, which holds paint.
C28_Witness ==
  /\ Len(fluidCalls) = 2
  /\ fluidCalls[1].fn = "splat" /\ fluidCalls[2].fn = "step"
  /\ velocityFBO.readTarget = "B"
  /\ paintFBO.readTarget = "A"
  /\ paintFBO.read # ClearGrid

\* the x and y velocity of every texel is 0
AtRest(velTex) == \A c \in Cells : velTex[c][1] = 0 /\ velTex[c][2] = 0

\* C21: a step() that finds the velocity field zero everywhere leaves every
\* channel of every cell of the paint field as it was and leaves the velocity
\* zero, so no number of idle steps fades or moves paint.
C21_PaintPersistsAtRest ==
  \A i \in 1..Len(fluidCalls) :
    (fluidCalls[i].fn = "step" /\ AtRest(fluidCalls[i].velBefore)) =>
      /\ PaintAfter(i) = fluidCalls[i].before
      /\ AtRest(VelAfter(i))

\* C21 witness: paint of a splat without velocity, uneven over the grid, went
\* through two steps in a row.
C21_Witness ==
  /\ Len(fluidCalls) = 3
  /\ fluidCalls[1].fn = "splat"
  /\ fluidCalls[2].fn = "step" /\ fluidCalls[3].fn = "step"
  /\ AtRest(fluidCalls[2].velBefore)
  /\ \E c, d \in Cells : paintFBO.read[c][4] > 0 /\ paintFBO.read[d] # paintFBO.read[c]

----------------------------------------------------------------------------
\* Claims about BristleSystem (checked under SpecBristle)

\* C22: every contact point left by an update has pressure within
\* [0.15, 1], carries a UV, names a bristle of the brush, and no bristle has
\* more than one contact.
C22_ContactsWellFormed ==
  /\ \A k \in 1..Len(contactPoints) :
       /\ contactPoints[k].pressure >= 150
       /\ contactPoints[k].pressure <= 1000
       /\ contactPoints[k].uv # NoUV
       /\ contactPoints[k].bristleIndex \in Bristles
  /\ \A k, l \in 1..Len(contactPoints) :
       contactPoints[k].bristleIndex = contactPoints[l].bristleIndex => k = l

\* C22 witness: an update left a contact for every bristle, at a hit farther
\* away than the bristle is long, whose pressure is the floor 0.15
C22_Witness ==
  /\ bristleCalls # <<>>
  /\ Len(contactPoints) = BristleCount
  /\ \A k \in 1..Len(contactPoints) : contactPoints[k].pressure = 150

\* the length of segment s of bristle i in the joints J
SegmentLength(J, i, s) == VLen(VSub(J[i][s + 1], J[i][s]))

\* C24: updateInstanceMatrices() leaves jointPositions, prevJointPositions,
\* the accumulator and the contact list as they were; the matrix of a segment
\* not longer than 0.00001 stays the previous one, and the matrix of every
\* other segment is composed anew at the segment's first joint.
C24_MatricesOnly ==
  [][/\ UNCHANGED <<jointPositions, prevJointPositions, physicsAccumulator,
                    contactPoints>>
     /\ \A i \in Bristles, s \in 1..segmentsPerBristle :
          IF SegmentLength(jointPositions, i, s) <= MinSegment
            THEN instanceMatrix'[i][s] = instanceMatrix[i][s]
            ELSE /\ instanceMatrix'[i][s].position = jointPositions[i][s]
                 /\ instanceMatrix'[i][s].lengthScale =
                      RDiv(SegmentLength(jointPositions, i, s) * 1000, segmentLength)]_vars

\* C24 witness: the matrices were refreshed for a brush that has contacts, a
\* segment exactly 0.00001 long, whose matrix still is the one of the rest
\* pose, and a stretched segment whose matrix was rewritten.
C24_Witness ==
  /\ contactPoints # <<>>
  /\ \E i \in Bristles :
       /\ SegmentLength(jointPositions, i, 3) = MinSegment
       /\ instanceMatrix[i][3].position = initialJoints(i, <<0, 0>>)[3]
       /\ instanceMatrix[i][3].lengthScale # RDiv(MinSegment * 1000, segmentLength)
  /\ \E i \in Bristles :
       /\ SegmentLength(jointPositions, i, 2) = 0
       /\ instanceMatrix[i][3].lengthScale > 1500

\* C6: for every bristle, joint 0 is at the same position after an update()
\* call as before it, whatever the pressure, deltaTime and collisions were.
C6_BaseJointAnchored ==
  \A n \in 1..Len(bristleCalls) : \A i \in Bristles :
    LET after == IF n = Len(bristleCalls) THEN jointPositions
                 ELSE bristleCalls[n + 1].before
    IN after[i][1] = bristleCalls[n].before[i][1]

\* C6 witness: an update under full pressure that ran substeps, collided
\* with the nail and moved the tip of every bristle.
C6_Witness ==
  /\ Len(bristleCalls) > 0
  /\ LET c == bristleCalls[Len(bristleCalls)] IN
       /\ c.pressure = 1000
       /\ c.substeps > 0
       /\ c.collided = BristleCount
       /\ \A i \in Bristles : jointPositions[i][4] # c.before[i][4]

\* the tolerance: one hundredth of the rest length of a segment
Epsilon == segmentLength \div 100

SubstepBound == (TicksPerSecond \div 10 + physicsTimestep - 1) \div physicsTimestep + 1

\* C9: no update() call runs more than ceil(maxDt / fixedDt) + 1 substeps,
\* however large deltaTime is and whatever the accumulator carried over.
C9_SubstepsBounded ==
  \A n \in 1..Len(bristleCalls) : bristleCalls[n].substeps <= SubstepBound

\* C9 witness: a stalled frame, longer than the cap, that met a remainder in
\* the accumulator and ran as many substeps as the bound allows.
C9_Witness ==
  \E n \in 1..Len(bristleCalls) :
    /\ bristleCalls[n].deltaTime > MaxDeltaTime
    /\ bristleCalls[n].carried > 0
    /\ bristleCalls[n].substeps = SubstepBound

----------------------------------------------------------------------------
\* PolishLayerState: the methods of the nail's layer state and of its layers

\* saveUndoState() calls of a run
MaxSaves == 12

\* the last value of Date.now() of a run
MaxDateNow == 9000

\* the time that passes between two calls
Ticks == {DRY_TIME - 1, DRY_TIME}

\* the layers a run paints on
PaintedLayers == {COLOR_1, TOP_COAT}

\* the colour a coat is applied with: this.selectedColor
LayerColors == {"#ff2a6d"}

\* the layer types setActiveLayer() is called with
RequestedLayers == {COLOR_1, TOP_COAT, "glitter"}

\* what the methods of PolishLayerState leave alone
layerFrame == UNCHANGED <<ctlVars, fluidVars, bristleVars, domVars, lastOp>>

\* time passes
tick(ms) ==
  /\ dateNow + ms <= MaxDateNow
  /\ dateNow' = dateNow + ms
  /\ layerOp' = LayerOp("tick", "null", FALSE)
  /\ UNCHANGED <<layers, activeLayer, undoStack, startDryingAt, saves>>
  /\ layerFrame

\* layers[l].startApplying(color)
layerStartApplying(l, color) ==
  /\ layers' = [layers EXCEPT ![l] = startApplying(@, color)]
  /\ startDryingAt' = [startDryingAt EXCEPT ![l] = NoTime]
  /\ layerOp' = LayerOp("startApplying", l, FALSE)
  /\ UNCHANGED <<activeLayer, undoStack, dateNow, saves>>
  /\ layerFrame

\* layers[l].startDrying()
layerStartDrying(l) ==
  /\ layers' = [layers EXCEPT ![l] = startDrying(@, dateNow)]
  /\ startDryingAt' = [startDryingAt EXCEPT ![l] = dateNow]
  /\ layerOp' = LayerOp("startDrying", l, FALSE)
  /\ UNCHANGED <<activeLayer, undoStack, dateNow, saves>>
  /\ layerFrame

\* layers[l].checkDry()
layerCheckDry(l) ==
  /\ layers' = [layers EXCEPT ![l] = checkDry(@, dateNow).layer]
  /\ layerOp' = LayerOp("checkDry", l, checkDry(layers[l], dateNow).result)
  /\ UNCHANGED <<activeLayer, undoStack, dateNow, startDryingAt, saves>>
  /\ layerFrame

\* layers[l].instantDry()
layerInstantDry(l) ==
  /\ layers' = [layers EXCEPT ![l] = instantDry(@)]
  /\ layerOp' = LayerOp("instantDry", l, FALSE)
  /\ UNCHANGED <<activeLayer, undoStack, dateNow, startDryingAt, saves>>
  /\ layerFrame

\* layers[l].reset()
layerReset(l) ==
  /\ layers' = [layers EXCEPT ![l] = resetLayer(@)]
  /\ layerOp' = LayerOp("reset", l, FALSE)
  /\ UNCHANGED <<activeLayer, undoStack, dateNow, startDryingAt, saves>>
  /\ layerFrame

setActiveLayer(layerType) ==
  /\ activeLayer' = IF layerType \in LayerTypes THEN layerType ELSE activeLayer
  /\ layerOp' = LayerOp("setActiveLayer", layerType, FALSE)
  /\ UNCHANGED <<layers, undoStack, dateNow, startDryingAt, saves>>
  /\ layerFrame

updateDrying ==
  /\ layers' = [l \in LayerTypes |-> checkDry(layers[l], dateNow).layer]
  /\ layerOp' = LayerOp("updateDrying", "null", FALSE)
  /\ UNCHANGED <<activeLayer, undoStack, dateNow, startDryingAt, saves>>
  /\ layerFrame

trimNever(stack) == stack

\* the trim of saveUndoState(): shift() when the stack is over maxUndoSteps
trim(stack) == IF Len(stack) > maxUndoSteps THEN Tail(stack) ELSE stack

\* saveUndoState(canvasData); a canvas snapshot is the number of the save
\* that took it
saveUndoState(canvasData) ==
  /\ saves < MaxSaves
  /\ undoStack' = trim(Append(undoStack,
       [activeLayer |-> activeLayer, canvasData |-> canvasData,
        timestamp |-> dateNow]))
  /\ saves' = saves + 1
  /\ layerOp' = LayerOp("saveUndoState", "null", FALSE)
  /\ UNCHANGED <<layers, activeLayer, dateNow, startDryingAt>>
  /\ layerFrame

\* popUndo(): this.undoStack.pop() || null
popUndo ==
  /\ undoStack' = IF undoStack = <<>> THEN <<>>
                  ELSE SubSeq(undoStack, 1, Len(undoStack) - 1)
  /\ layerOp' = LayerOp("popUndo", "null",
       IF undoStack = <<>> THEN NoEntry ELSE undoStack[Len(undoStack)])
  /\ UNCHANGED <<layers, activeLayer, dateNow, startDryingAt, saves>>
  /\ layerFrame

clearAll ==
  /\ layers' = [l \in LayerTypes |-> resetLayer(layers[l])]
  /\ undoStack' = <<>>
  /\ activeLayer' = COLOR_1
  /\ layerOp' = LayerOp("clearAll", "null", FALSE)
  /\ UNCHANGED <<dateNow, startDryingAt, saves>>
  /\ layerFrame

quickFill(layerType, color) ==
  /\ layers' = [layers EXCEPT ![layerType] =
       startDrying([startApplying(@, color) EXCEPT !.coverage = FilledOpacity],
                   dateNow)]
  /\ startDryingAt' = [startDryingAt EXCEPT ![layerType] = dateNow]
  /\ layerOp' = LayerOp("quickFill", layerType, FALSE)
  /\ UNCHANGED <<activeLayer, undoStack, dateNow, saves>>
  /\ layerFrame

NextUndo ==
  \/ saveUndoState(saves + 1)
  \/ popUndo
  \/ clearAll

SpecUndo == InitAlone /\ [][NextUndo]_vars

NextDrying ==
  \/ \E l \in PaintedLayers, color \in LayerColors : layerStartApplying(l, color)
  \/ \E l \in PaintedLayers : layerStartDrying(l)
  \/ \E l \in PaintedLayers : layerCheckDry(l)
  \/ \E l \in PaintedLayers : layerInstantDry(l)
  \/ \E l \in PaintedLayers : layerReset(l)
  \/ \E l \in PaintedLayers, color \in LayerColors : quickFill(l, color)
  \/ \E layerType \in RequestedLayers : setActiveLayer(layerType)
  \/ updateDrying
  \/ clearAll
  \/ \E ms \in Ticks : tick(ms)

SpecDrying == InitAlone /\ [][NextDrying]_vars

----------------------------------------------------------------------------
\* Claims about the undo stack (checked under SpecUndo)

Entries(stack) == {stack[i] : i \in 1..Len(stack)}

\* the entry of the earliest save among the entries
Oldest(es) == CHOOSE e \in es : \A f \in es : e.canvasData <= f.canvasData

\* the entry of the latest save among the entries
Newest(es) == CHOOSE e \in es : \A f \in es : f.canvasData <= e.canvasData

\* the entry a saveUndoState() step has just pushed
Saved == [activeLayer |-> activeLayer, canvasData |-> saves',
          timestamp |-> dateNow]

\* C29: after any sequence of saveUndoState and popUndo calls the undo stack
\* holds at most maxUndoSteps (10) entries; a save made on a full stack drops
\* the oldest entry and keeps the others, and popUndo returns the most
\* recently saved entry that is still on the stack and takes it off, or
\* returns null when the stack is empty.
C29_UndoStackBounded ==
  /\ [](Len(undoStack) <= maxUndoSteps)
  /\ [][/\ layerOp'.fn = "saveUndoState" =>
             Entries(undoStack') =
               (IF Len(undoStack) < maxUndoSteps THEN Entries(undoStack)
                ELSE Entries(undoStack) \ {Oldest(Entries(undoStack))})
               \cup {Saved}
        /\ layerOp'.fn = "popUndo" =>
             IF undoStack = <<>>
             THEN layerOp'.value = NoEntry /\ undoStack' = <<>>
             ELSE /\ layerOp'.value = Newest(Entries(undoStack))
                  /\ Entries(undoStack') =
                       Entries(undoStack) \ {Newest(Entries(undoStack))}
                  /\ Len(undoStack') = Len(undoStack) - 1]_vars

\* C29 witness: the eleventh save pushed the first one off the full stack,
\* and popUndo then returned the entry of the eleventh save.
C29_Witness ==
  /\ saves = maxUndoSteps + 1
  /\ layerOp.fn = "popUndo"
  /\ layerOp.value.canvasData = maxUndoSteps + 1
  /\ Len(undoStack) = maxUndoSteps - 1
  /\ \A i \in 1..Len(undoStack) : undoStack[i].canvasData = i + 1

----------------------------------------------------------------------------
\* Claims about the drying of a layer (checked under SpecDrying)

\* the layer is applied and wet
Wet(l) == layers[l].applied /\ ~layers[l].isDry

\* the step is a call of the method fn on the layer l, or of the method of
\* PolishLayerState that makes that call on every layer
Called(fn, all, l) ==
  \/ layerOp'.fn = fn /\ layerOp'.layer = l
  \/ layerOp'.fn = all

\* C30: a layer that is applied and wet becomes dry only through
\* instantDry(), reset(), or a checkDry() made at least DRY_TIME (4000 ms)
\* after the most recent startDrying() on it; checkDry() on a wet layer whose
\* drying was never started returns false and leaves the layer wet, however
\* late it is made; startDrying() on a layer that is not applied or is
\* already dry starts no timer.
C30_DriesByTimerOrCall ==
  [][\A l \in LayerTypes :
       /\ (Wet(l) /\ layers'[l].isDry) =>
            \/ Called("instantDry", "none", l)
            \/ Called("reset", "clearAll", l)
            \/ /\ Called("checkDry", "updateDrying", l)
               /\ startDryingAt[l] # NoTime
               /\ dateNow - startDryingAt[l] >= DRY_TIME
       /\ (Wet(l) /\ startDryingAt[l] = NoTime
             /\ Called("checkDry", "updateDrying", l)) =>
            /\ layers'[l] = layers[l]
            /\ layerOp'.fn = "checkDry" => layerOp'.value = FALSE
       /\ (~Wet(l) /\ Called("startDrying", "none", l)) =>
            layers'[l] = layers[l]]_vars

\* C30 witness: a coat whose drying was started, checked too early, started
\* again, and that checkDry() found dry exactly DRY_TIME after the second
\* start.
C30_Witness ==
  \E l \in PaintedLayers :
    /\ layerOp = LayerOp("checkDry", l, TRUE)
    /\ layers[l].applied
    /\ layers[l].isDry
    /\ layers[l].dryStartTime = startDryingAt[l]
    /\ layers[l].dryStartTime = StartTime + DRY_TIME - 1
    /\ dateNow = layers[l].dryStartTime + DRY_TIME

\* C30 second witness: the clock has passed twice DRY_TIME and checkDry()
\* still returned false on a wet coat whose drying was never started.
C30_NeverStarted ==
  \E l \in PaintedLayers :
    /\ layerOp = LayerOp("checkDry", l, FALSE)
    /\ Wet(l)
    /\ startDryingAt[l] = NoTime
    /\ dateNow >= StartTime + 2 * DRY_TIME - 1

====
